---- MODULE Spec2Model ----
(***************************************************************************)
(* Model of yate-extmodule (index.js): the Connection protocol engine, the *)
(* Message codec and the escape codec.                                     *)
(*                                                                         *)
(* Strings are sequences of character codes, so that escape/unescape and   *)
(* the split of a line on ':' are computed as the code computes them.      *)
(* JavaScript values are tagged records: [t |-> "str", s |-> chars],       *)
(* [t |-> "bool", b |-> ...], [t |-> "num", n |-> ...], [t |-> "null"],    *)
(* [t |-> "undef"], [t |-> "obj", kv |-> <<<<key, value>>, ...>>],         *)
(* [t |-> "buf", bytes |-> ...] (a Buffer, read as text byte by byte).     *)
(* A JavaScript object used as a map is a sequence of <<key, value>>       *)
(* pairs in insertion order (the order for..in enumerates).                *)
(***************************************************************************)
EXTENDS Integers, Sequences, FiniteSets, TLC

\* ------------------------------------------------------------------------
\* Bounds of the model
\* ------------------------------------------------------------------------
MaxDispatch == 2      \* dispatch() calls made by the application
MaxSockets == 2       \* connect attempts (sockets created) in socket mode
MaxPipeTimers == 1    \* pending activation timers in pipe mode
MaxLen == 3           \* characters of a string given to escape
MaxLocal == 3         \* setlocal()/getlocal() calls made with a callback
MaxInFlight == 2      \* install lines in flight when subscribe() is called

\* ------------------------------------------------------------------------
\* String literals of the source
\* ------------------------------------------------------------------------
S_MsgOut == <<37, 37, 62, 109, 101, 115, 115, 97, 103, 101>>  \* "%%>message"
S_MsgIn == <<37, 37, 60, 109, 101, 115, 115, 97, 103, 101>>  \* "%%<message"
S_InstallOut == <<37, 37, 62, 105, 110, 115, 116, 97, 108, 108>>  \* "%%>install"
S_InstallIn == <<37, 37, 60, 105, 110, 115, 116, 97, 108, 108>>  \* "%%<install"
S_UninstallOut == <<37, 37, 62, 117, 110, 105, 110, 115, 116, 97, 108, 108>>  \* "%%>uninstall"
S_UninstallIn == <<37, 37, 60, 117, 110, 105, 110, 115, 116, 97, 108, 108>>  \* "%%<uninstall"
S_WatchOut == <<37, 37, 62, 119, 97, 116, 99, 104>>  \* "%%>watch"
S_WatchIn == <<37, 37, 60, 119, 97, 116, 99, 104>>  \* "%%<watch"
S_UnwatchOut == <<37, 37, 62, 117, 110, 119, 97, 116, 99, 104>>  \* "%%>unwatch"
S_SetlocalOut == <<37, 37, 62, 115, 101, 116, 108, 111, 99, 97, 108>>  \* "%%>setlocal"
S_SetlocalIn == <<37, 37, 60, 115, 101, 116, 108, 111, 99, 97, 108>>  \* "%%<setlocal"
S_true == <<116, 114, 117, 101>>  \* "true"
S_false == <<102, 97, 108, 115, 101>>  \* "false"
S_undefined == <<117, 110, 100, 101, 102, 105, 110, 101, 100>>  \* "undefined"
S_null == <<110, 117, 108, 108>>  \* "null"
S_object == <<91, 111, 98, 106, 101, 99, 116, 32, 79, 98, 106, 101, 99, 116, 93>>  \* "[object Object]"
S_nodejs == <<110, 111, 100, 101, 106, 115>>  \* "nodejs"
S_trackparam == <<116, 114, 97, 99, 107, 112, 97, 114, 97, 109>>  \* "trackparam"
S_restart == <<114, 101, 115, 116, 97, 114, 116>>  \* "restart"
S_selfwatch == <<115, 101, 108, 102, 119, 97, 116, 99, 104>>  \* "selfwatch"
S_timeout == <<116, 105, 109, 101, 111, 117, 116>>  \* "timeout"

\* character codes the codec tests for
Colon == <<58>>       \* ":"
Equals == <<61>>      \* "="
ChColon == 58
ChPercent == 37
ChEquals == 61

\* ------------------------------------------------------------------------
\* JavaScript values
\* ------------------------------------------------------------------------
Str(s) == [t |-> "str", s |-> s]
Bool(b) == [t |-> "bool", b |-> b]
Num(n) == [t |-> "num", n |-> n]
Null == [t |-> "null"]
Undef == [t |-> "undef"]
Obj(kv) == [t |-> "obj", kv |-> kv]

\* decimal digits of a non-negative integer (Number.prototype.toString)
RECURSIVE Dec(_)
Dec(n) == IF n < 10 THEN <<48 + n>> ELSE Dec(n \div 10) \o <<48 + (n % 10)>>

\* value.toString() / '' + value
toString(v) ==
  CASE v.t = "str" -> v.s
    [] v.t = "bool" -> IF v.b THEN S_true ELSE S_false
    [] v.t = "num" -> Dec(v.n)
    [] v.t = "null" -> S_null
    [] v.t = "undef" -> S_undefined
    [] v.t = "obj" -> S_object
    [] v.t = "buf" -> v.bytes

\* JavaScript truthiness
Truthy(v) ==
  CASE v.t = "str" -> v.s # <<>>
    [] v.t = "bool" -> v.b
    [] v.t = "num" -> v.n # 0
    [] v.t = "null" -> FALSE
    [] v.t = "undef" -> FALSE
    [] v.t = "obj" -> TRUE
    [] v.t = "buf" -> TRUE

\* typeof value, as validateLocalValue compares it
TypeOf(v) ==
  CASE v.t = "str" -> "string"
    [] v.t = "bool" -> "boolean"
    [] v.t = "num" -> "number"
    [] v.t = "null" -> "object"
    [] v.t = "undef" -> "undefined"
    [] v.t = "obj" -> "object"
    [] v.t = "buf" -> "object"

\* ------------------------------------------------------------------------
\* Escape codec
\* ------------------------------------------------------------------------
RECURSIVE escapeCharsSinglePercent(_, _)
escapeCharsSinglePercent(str, extra) ==
  IF str = <<>> THEN <<>>
  ELSE LET chr == Head(str)
           out == IF chr < 32 \/ chr = ChColon \/ chr = extra
                    THEN <<ChPercent, (chr + 64) % 65536>>
                    ELSE <<chr>>
       IN out \o escapeCharsSinglePercent(Tail(str), extra)

\* escape() on the characters of a string; extra = -1 when no extra
\* character is passed
RECURSIVE escapeChars(_, _)
escapeChars(str, extra) ==
  IF str = <<>> THEN <<>>
  ELSE LET chr == Head(str)
           out == IF chr < 32 \/ chr = ChColon \/ chr = extra
                    THEN <<ChPercent, (chr + 64) % 65536>>
                    ELSE IF chr = ChPercent THEN <<chr, chr>> ELSE <<chr>>
       IN out \o escapeChars(Tail(str), extra)

\* escape(str, extra) on a JavaScript value
escape(v, extra) ==
  CASE v.t = "null" -> <<>>
    [] v.t = "undef" -> S_undefined
    [] v.t = "bool" -> IF v.b THEN S_true ELSE S_false
    [] OTHER -> escapeChars(toString(v), extra)

\* unescape(str): '%' introduces an escape unless followed by '%'.
\* A trailing lone '%' reads charAt past the end ('' whose charCodeAt is
\* NaN, giving the character of code 0).
RECURSIVE unescape(_)
unescape(str) ==
  IF str = <<>> THEN <<>>
  ELSE IF Head(str) = ChPercent
    THEN IF Len(str) = 1 THEN <<0>>
         ELSE LET chr == str[2]
              IN (IF chr # ChPercent THEN <<(chr - 64) % 65536>> ELSE <<chr>>)
                 \o unescape(SubSeq(str, 3, Len(str)))
    ELSE <<Head(str)>> \o unescape(Tail(str))

Bool2str(bool) == IF bool THEN S_true ELSE S_false

Str2boolAlways(str) == TRUE

Str2bool(str) == (str = S_true)

\* ------------------------------------------------------------------------
\* String helpers
\* ------------------------------------------------------------------------
\* string.split(sep) for a one-character separator: the list of fields
RECURSIVE SplitFrom(_, _, _, _)
SplitFrom(str, sep, i, start) ==
  IF i > Len(str) THEN <<SubSeq(str, start, Len(str))>>
  ELSE IF str[i] = sep
    THEN <<SubSeq(str, start, i - 1)>> \o SplitFrom(str, sep, i + 1, i + 1)
    ELSE SplitFrom(str, sep, i + 1, start)

Split(str, sep) == SplitFrom(str, sep, 1, 1)

\* item.indexOf(ch): 0-based position of the first ch, -1 when absent
RECURSIVE IndexOfFrom(_, _, _)
IndexOfFrom(str, ch, i) ==
  IF i > Len(str) THEN -1
  ELSE IF str[i] = ch THEN i - 1 ELSE IndexOfFrom(str, ch, i + 1)

IndexOf(str, ch) == IndexOfFrom(str, ch, 1)

\* String.prototype.trim: strips white space and line terminators
WhiteSpace == {9, 10, 11, 12, 13, 32, 160}

RECURSIVE TrimLeft(_)
TrimLeft(str) ==
  IF str # <<>> /\ Head(str) \in WhiteSpace THEN TrimLeft(Tail(str)) ELSE str

RECURSIVE TrimRight(_)
TrimRight(str) ==
  IF str # <<>> /\ str[Len(str)] \in WhiteSpace
    THEN TrimRight(SubSeq(str, 1, Len(str) - 1)) ELSE str

Trim(str) == TrimRight(TrimLeft(str))

\* ------------------------------------------------------------------------
\* JavaScript objects used as maps: <<key, value>> pairs in insertion order
\* ------------------------------------------------------------------------
\* own keys only: the keys the model uses are no property names of
\* Object.prototype, and none is an integer index
Has(m, k) == \E i \in 1..Len(m) : m[i][1] = k

\* a lookup that answers with the first entry whatever the key
GetFirst(m, k) == m[1][2]

Get(m, k) == m[CHOOSE i \in 1..Len(m) : m[i][1] = k][2]

\* m[k] = v: an existing key keeps its place
Put(m, k, v) ==
  IF Has(m, k) THEN [i \in 1..Len(m) |-> IF m[i][1] = k THEN <<k, v>> ELSE m[i]]
  ELSE Append(m, <<k, v>>)

\* delete m[k]
Del(m, k) == SelectSeq(m, LAMBDA e : e[1] # k)

\* ------------------------------------------------------------------------
\* Structural decoration transform
\* ------------------------------------------------------------------------
HexDigits == <<48, 49, 50, 51, 52, 53, 54, 55, 56, 57, 97, 98, 99, 100, 101, 102>>

\* hexlify(byteArray): two lowercase hex digits per byte, joined by ' '
RECURSIVE hexlify(_)
hexlify(bytes) ==
  IF bytes = <<>> THEN <<>>
  ELSE LET b == Head(bytes) % 256
           pair == <<HexDigits[(b \div 16) + 1], HexDigits[(b % 16) + 1]>>
       IN IF Len(bytes) = 1 THEN pair ELSE pair \o <<32>> \o hexlify(Tail(bytes))

IsLowerHex(c) == (c >= 48 /\ c <= 57) \/ (c >= 97 /\ c <= 102)

\* value of a hex digit as Buffer.from(str, 'hex') reads it, -1 if none
HexVal(c) ==
  IF c >= 48 /\ c <= 57 THEN c - 48
  ELSE IF c >= 97 /\ c <= 102 THEN c - 87
  ELSE IF c >= 65 /\ c <= 70 THEN c - 55
  ELSE -1

\* value.match(/[0-9a-f]{2}( [0-9a-f]{2})+/g): the pattern occurs somewhere
MatchesHex(str) ==
  \E i \in 1..Len(str) :
    /\ i + 4 <= Len(str)
    /\ IsLowerHex(str[i]) /\ IsLowerHex(str[i + 1])
    /\ str[i + 2] = 32
    /\ IsLowerHex(str[i + 3]) /\ IsLowerHex(str[i + 4])

\* Buffer.from(hex, 'hex'): decodes digit pairs up to the first invalid one
RECURSIVE FromHex(_)
FromHex(str) ==
  IF Len(str) < 2 \/ HexVal(str[1]) < 0 \/ HexVal(str[2]) < 0 THEN <<>>
  ELSE <<HexVal(str[1]) * 16 + HexVal(str[2])>> \o FromHex(SubSeq(str, 3, Len(str)))

\* unhexlify(str): the spaces removed, then decoded
unhexlify(str) == [t |-> "buf", bytes |-> FromHex(SelectSeq(str, LAMBDA c : c # 32))]

\* yatefy(object, rootkey): nested parameters to flat dotted keys.
\* object is the list of <<key, value>> pairs, rootkey a string value or
\* Undef; keys are strings, so an undefined rootkey used as a key reads
\* "undefined".
RECURSIVE yatefy(_, _)
RECURSIVE yatefyFrom(_, _, _, _)
yatefyFrom(object, i, rootkey, result) ==
  IF i > Len(object) THEN result
  ELSE LET key == object[i][1]
           raw == object[i][2]
           value == IF raw.t = "buf" THEN Str(hexlify(raw.bytes)) ELSE raw
           prefix == IF Truthy(rootkey) THEN rootkey.s \o <<46>> ELSE <<>>
           RECURSIVE Merge(_, _, _)
           Merge(sub, j, res) ==
             IF j > Len(sub) THEN res
             ELSE Merge(sub, j + 1, Put(res, prefix \o sub[j][1], sub[j][2]))
           next == IF value.t = "obj"
                     THEN Merge(yatefy(value.kv, Str(key)), 1, result)
                     ELSE IF key = <<118, 97, 108, 117, 101>>   \* 'value'
                            THEN Put(result, toString(rootkey), value)
                            ELSE Put(result, prefix \o key, value)
       IN yatefyFrom(object, i + 1, rootkey, next)

yatefy(object, rootkey) == yatefyFrom(object, 1, rootkey, <<>>)

\* the reduce over the segments of a dotted key in beautify: object is the
\* node reached so far, segs the remaining segments.  A property set on a
\* primitive is lost; a Buffer reached on the way keeps its bytes.
RECURSIVE SetPath(_, _, _)
SetPath(object, segs, value) ==
  LET key == Head(segs)
  IN IF Len(segs) = 1
       THEN IF Has(object, key)
              THEN LET cur == Get(object, key)
                   IN IF cur.t = "obj"
                        THEN Put(object, key, Obj(Put(cur.kv, <<118, 97, 108, 117, 101>>, value)))
                        ELSE object
              ELSE Put(object, key, value)
       ELSE LET child == IF Has(object, key)
                           THEN IF Get(object, key).t \notin {"obj", "buf"}
                                  THEN Obj(<< <<key, Get(object, key)>> >>)
                                  ELSE Get(object, key)
                           ELSE Obj(<<>>)
            IN IF child.t = "buf" THEN Put(object, key, child)
               ELSE Put(object, key, Obj(SetPath(child.kv, Tail(segs), value)))

\* beautify(object): flat dotted keys to nested parameters
RECURSIVE beautifyFrom(_, _, _)
beautifyFrom(object, i, result) ==
  IF i > Len(object) THEN result
  ELSE LET key == object[i][1]
           raw == object[i][2]
           value == IF raw.t # "str" THEN raw
                    ELSE IF raw.s = S_false THEN Bool(FALSE)
                    ELSE IF raw.s = S_true THEN Bool(TRUE)
                    ELSE IF Len(raw.s) > 4 /\ MatchesHex(raw.s) THEN unhexlify(raw.s)
                    ELSE raw
           next == IF IndexOf(key, 46) # 0
                     THEN SetPath(result, Split(key, 46), value)
                     ELSE Put(result, key, value)
       IN beautifyFrom(object, i + 1, next)

beautify(object) == beautifyFrom(object, 1, <<>>)

\* ------------------------------------------------------------------------
\* Message
\* ------------------------------------------------------------------------
\* property names found on Message.prototype (own and inherited), which
\* parse refuses as parameter keys

PrototypeKeys ==
  {<<99, 111, 110, 115, 116, 114, 117, 99, 116, 111, 114>>,
   <<112, 97, 114, 115, 101>>,
   <<115, 116, 114, 105, 110, 103, 105, 102, 121>>,
   <<116, 111, 83, 116, 114, 105, 110, 103>>,
   <<118, 97, 108, 117, 101, 79, 102>> }
  \* constructor, parse, stringify, toString, valueOf

\* new Message(name, params) created at wall-clock second sec with the
\* high-resolution counter reading nanos
NewMessage(name, params, sec, nanos) ==
  [_name |-> name,
   _origin |-> Dec(sec),
   _id |-> Dec(sec) \o Dec(nanos),
   _type |-> "outgoing",
   _processed |-> FALSE,
   _retval |-> Undef,
   _success |-> FALSE,
   _value |-> <<>>,
   error |-> FALSE,
   params |-> params]

\* the key=value items of a line, as parse stores them in params
RECURSIVE ParseItems(_, _)
ParseItems(items, params) ==
  IF items = <<>> THEN params
  ELSE LET item == Head(items)
           pos == IndexOf(item, ChEquals)
           key == SubSeq(item, 1, pos)
           next == IF pos > 0 /\ key \notin PrototypeKeys
                     THEN Put(params, unescape(key),
                              Str(unescape(SubSeq(item, pos + 2, Len(item)))))
                     ELSE params
       IN ParseItems(Tail(items), next)

\* new Message().parse(string, decorate).  Lines carry the fields their
\* verb reads through unescape (five for the message verbs).
parse(string, decorate) ==
  LET dataArray == Split(string, ChColon)
      F(i) == IF i + 1 <= Len(dataArray) THEN dataArray[i + 1] ELSE S_undefined
      verb == dataArray[1]
      blank == [_name |-> <<>>, _origin |-> <<>>, _id |-> <<>>, _type |-> "outgoing",
                _processed |-> FALSE, _retval |-> Undef, _success |-> FALSE,
                _value |-> <<>>, error |-> FALSE, params |-> <<>>]
      items == SubSeq(dataArray, 6, Len(dataArray))
      withParams(m) ==
        LET flat == ParseItems(items, <<>>)
        IN [m EXCEPT !.params = IF decorate THEN beautify(flat) ELSE flat]
  IN CASE verb = S_MsgOut ->
            withParams([blank EXCEPT !._type = "incoming", !._id = F(1), !._origin = F(2),
                                     !._name = F(3), !._retval = Str(unescape(F(4)))])
       [] verb = S_MsgIn ->
            withParams([blank EXCEPT !._id = F(1),
                                     !._type = IF F(1) # <<>> THEN "answer" ELSE "notification",
                                     !._processed = Str2bool(F(2)),
                                     !._name = F(3), !._retval = Str(unescape(F(4)))])
       [] verb = S_InstallIn ->
            [blank EXCEPT !._type = "install", !._name = F(2), !._success = Str2bool(F(3))]
       [] verb = S_UninstallIn ->
            [blank EXCEPT !._type = "uninstall", !._name = F(2)]
       [] verb = S_WatchIn ->
            [blank EXCEPT !._type = "watch", !._name = F(1), !._success = Str2bool(F(2))]
       [] verb = S_SetlocalIn ->
            [blank EXCEPT !._type = "setlocal", !._name = F(1), !._value = F(2),
                          !._success = Str2bool(F(3))]
       [] OTHER -> [blank EXCEPT !.error = TRUE]

\* message.stringify(includeEmpty, decorate): the ':key=value' tail of a
\* line and the params as stringify leaves them
stringifyParams(params, decorate) == IF decorate THEN yatefy(params, Undef) ELSE params

RECURSIVE stringifyFrom(_, _)
stringifyFrom(params, includeEmpty) ==
  IF params = <<>> THEN <<>>
  ELSE LET key == Head(params)[1]
           value == toString(Head(params)[2])
           item == IF value # <<>>
                     THEN Colon \o escapeChars(key, -1) \o Equals \o escapeChars(value, -1)
                     ELSE IF includeEmpty THEN Colon \o escapeChars(key, -1) ELSE <<>>
       IN item \o stringifyFrom(Tail(params), includeEmpty)

stringify(params, includeEmpty, decorate) ==
  stringifyFrom(stringifyParams(params, decorate), includeEmpty)

\* ------------------------------------------------------------------------
\* Connection: state
\* ------------------------------------------------------------------------
VARIABLES
  piped,              \* this.piped
  reconnect,          \* this.reconnect
  decorate,           \* this.decorate
  connected,          \* this.connected
  connecting,         \* this.connecting
  reconnecting,       \* this.reconnecting
  timer,              \* the pending timer this.timer refers to
  pipeTimers,         \* pending setTimeout(_start, 200) of pipe mode
  sockets,            \* every net.Socket created; this.socket is the last
  stream,             \* this.in_stream / this.out_stream
  readers,            \* streams a readline interface was created on
  parameters,         \* this.parameters
  setlocalCallbacks,  \* this.setlocalCallbacks
  subscriptions,      \* this.subscriptions
  watchers,           \* this.watchers
  msgs,               \* the Message objects created by dispatch()
  queue,              \* this.queue (references into msgs)
  dispatchCallbacks,  \* this.dispatchCallbacks: id -> the dispatch whose callback it is
  dtimers,            \* dispatches whose DISPATCH_TIMEOUT timer is pending
  calls,              \* how often the callback of each dispatch was invoked
  lcalls,             \* the same for each setlocal()/getlocal() with a callback
  installs,           \* the %%>install lines the engine has yet to confirm
  trace               \* what the last handler did: writes, events, callbacks

vars == <<piped, reconnect, decorate, connected, connecting, reconnecting, timer,
          pipeTimers, sockets, stream, readers, parameters, setlocalCallbacks,
          subscriptions, watchers, msgs, queue, dispatchCallbacks, dtimers, calls,
          lcalls, installs, trace>>

config == <<piped, reconnect, decorate>>
lifecycle == <<connected, connecting, reconnecting, timer, pipeTimers, sockets, stream, readers>>
registry == <<parameters, setlocalCallbacks, subscriptions, watchers>>
dispatching == <<msgs, queue, dispatchCallbacks, dtimers, calls, lcalls>>
engine == <<installs>>

\* streams: process.stdin/stdout, no stream yet, or the index of a socket
Stdio == 0
NoStream == -1

\* entries of trace: the call of the application that was served, the
\* 'raw' event with its prefixed line, a write to a stream, another event,
\* an exception thrown to the caller
Api(fn, args) == [op |-> "api", fn |-> fn, args |-> args]
Raw(prefix, string) == [op |-> "raw", line |-> prefix \o string]
Write(to, line) == [op |-> "write", to |-> to, line |-> line]
Emit(ev) == [op |-> "emit", ev |-> ev]
Throw == [op |-> "throw"]
Given(args) == [op |-> "given", args |-> args]
Applied(fn, result) == [op |-> "apply", fn |-> fn, result |-> result]
SetTimer(fn, delay) == [op |-> "setTimeout", fn |-> fn, delay |-> delay]
Call(fn, who, err, retval, params) ==
  [op |-> "call", fn |-> fn, who |-> who, err |-> err, retval |-> retval, params |-> params]

S_Sent == <<62, 32>>      \* "> "
S_Received == <<60, 32>>  \* "< "

\* this._send(string): written to out_stream when there is one
send(to, string) ==
  <<Raw(S_Sent, string)>> \o (IF to # NoStream THEN <<Write(to, string)>> ELSE <<>>)

\* the lines of _setlocal, _install, _uninstall, _watch, _unwatch
setlocalLine(name, value) == S_SetlocalOut \o Colon \o name \o Colon \o toString(value)

installLine(name, priority, filter, filterval) ==
  IF Truthy(filter) /\ Truthy(filterval)
    THEN S_InstallOut \o Colon \o toString(priority) \o Colon \o escapeChars(name, -1)
         \o Colon \o toString(filter) \o Colon \o toString(filterval)
    ELSE S_InstallOut \o Colon \o toString(priority) \o Colon \o escapeChars(name, -1)

uninstallLine(name) == S_UninstallOut \o Colon \o name

watchLine(name) == S_WatchOut \o Colon \o name

unwatchLine(name) == S_UnwatchOut \o Colon \o name

\* the line of _dispatch(message)
dispatchLine(message) ==
  S_MsgOut \o Colon \o escapeChars(message._id, -1)
  \o Colon \o message._origin
  \o Colon \o escapeChars(message._name, -1)
  \o Colon \o stringify(message.params, FALSE, decorate)

acknowledgeLineOrigin(message) ==
  S_MsgIn \o Colon \o escapeChars(message._origin, -1)
  \o Colon \o Bool2str(message._processed)
  \o Colon \o Colon \o escape(message._retval, -1)
  \o stringify(message.params, TRUE, decorate)

\* the line of _acknowledge(message)
acknowledgeLine(message) ==
  S_MsgIn \o Colon \o escapeChars(message._id, -1)
  \o Colon \o Bool2str(message._processed)
  \o Colon \o Colon \o escape(message._retval, -1)
  \o stringify(message.params, TRUE, decorate)

dispatchedStaysOutgoing(message) ==
  IF message._type # "outgoing" THEN message
  ELSE [message EXCEPT !.params = stringifyParams(message.params, decorate)]

\* _dispatch(message) on the message object: written only when outgoing
dispatched(message) ==
  IF message._type # "outgoing" THEN message
  ELSE [message EXCEPT !._type = "enqueued",
                       !.params = stringifyParams(message.params, decorate)]

dispatchWrites(to, message) ==
  IF message._type # "outgoing" THEN <<>> ELSE send(to, dispatchLine(message))

\* ------------------------------------------------------------------------
\* Connection: construction
\* ------------------------------------------------------------------------
\* new Connection(options): the options are any of pipe or socket mode,
\* reconnect on or off, decorate on or off, and no parameters
Constructed ==
  /\ piped \in BOOLEAN
  /\ reconnect \in BOOLEAN
  /\ decorate \in BOOLEAN
  /\ connected = FALSE
  /\ connecting = FALSE
  /\ reconnecting = FALSE
  /\ timer = "none"
  /\ pipeTimers = 0
  /\ sockets = <<>>
  /\ stream = IF piped THEN Stdio ELSE NoStream
  /\ readers = {}
  /\ parameters = IF piped
                    THEN << <<S_trackparam, Str(S_nodejs)>>, <<S_restart, Bool(TRUE)>> >>
                    ELSE << <<S_trackparam, Str(S_nodejs)>> >>
  /\ setlocalCallbacks = <<>>
  /\ subscriptions = <<>>
  /\ watchers = <<>>
  /\ msgs = <<>>
  /\ queue = <<>>
  /\ dispatchCallbacks = <<>>
  /\ dtimers = {}
  /\ calls = <<>>
  /\ lcalls = <<>>
  /\ installs = <<>>

Init ==
  /\ Constructed
  /\ trace = <<>>

\* ------------------------------------------------------------------------
\* Connection: lifecycle
\* ------------------------------------------------------------------------
connectWhileConnected(isConnected, st) ==
  IF piped THEN [st EXCEPT !.pipeTimers = @ + 1, !.did = @ \o <<SetTimer("_start", "200")>>]
  ELSE IF st.reconnecting THEN st
  ELSE [st EXCEPT !.connecting = FALSE, !.reconnecting = TRUE, !.timer = "connect",
                  !.did = @ \o <<SetTimer("_connect", "delay")>>]

connectKeepsConnecting(isConnected, st) ==
  IF isConnected THEN st
  ELSE IF piped THEN [st EXCEPT !.pipeTimers = @ + 1,
                                !.did = @ \o <<SetTimer("_start", "200")>>]
  ELSE IF st.reconnecting THEN st
  ELSE [st EXCEPT !.reconnecting = TRUE, !.timer = "connect",
                  !.did = @ \o <<SetTimer("_connect", "delay")>>]

\* connect(delay) on the flags as they are when it is called; st holds
\* connecting, reconnecting, timer and pipeTimers, and in did the timers
\* the handler has armed so far
connect(isConnected, st) ==
  IF isConnected THEN st
  ELSE IF piped THEN [st EXCEPT !.pipeTimers = @ + 1, !.did = @ \o <<SetTimer("_start", "200")>>]
  ELSE IF st.reconnecting THEN st
  ELSE [st EXCEPT !.connecting = FALSE, !.reconnecting = TRUE, !.timer = "connect",
                  !.did = @ \o <<SetTimer("_connect", "delay")>>]

flags == [connecting |-> connecting, reconnecting |-> reconnecting,
          timer |-> timer, pipeTimers |-> pipeTimers, did |-> <<>>]

SetFlags(st) ==
  /\ connecting' = st.connecting
  /\ reconnecting' = st.reconnecting
  /\ timer' = st.timer
  /\ pipeTimers' = st.pipeTimers

\* the application calls connect()
Connect ==
  /\ (piped /\ ~connected) => pipeTimers < MaxPipeTimers
  /\ SetFlags(connect(connected, flags))
  /\ trace' = <<Api("connect", <<>>)>> \o connect(connected, flags).did
  /\ UNCHANGED <<engine, config, connected, sockets, stream, readers, registry, dispatching>>

\* the timer armed by connect() fires: _connect()
ConnectTimer ==
  /\ timer = "connect"
  /\ Len(sockets) < MaxSockets
  /\ IF connected \/ connecting
       THEN /\ timer' = "none"
            /\ trace' = <<>>
            /\ UNCHANGED <<connecting, reconnecting, sockets>>
       ELSE /\ reconnecting' = FALSE
            /\ connecting' = TRUE
            /\ trace' = <<Emit("connecting"), SetTimer("watchdog", "reconnectTimeout")>>
            /\ sockets' = Append(sockets, "opening")
            /\ timer' = "watchdog"
  /\ UNCHANGED <<engine, config, connected, pipeTimers, stream, readers, registry, dispatching>>

WatchdogIdle ==
  /\ timer = "watchdog"
  /\ timer' = "none"
  /\ trace' = <<>>
  /\ UNCHANGED <<engine, config, connected, connecting, reconnecting, pipeTimers, sockets,
                 stream, readers, registry, dispatching>>

\* the watchdog armed by _connect() fires
Watchdog ==
  /\ timer = "watchdog"
  /\ \E st \in {IF reconnect THEN connect(connected, [flags EXCEPT !.timer = "none"])
                ELSE [flags EXCEPT !.timer = "none"]} :
       SetFlags(st) /\ trace' = st.did
  /\ UNCHANGED <<engine, config, connected, sockets, stream, readers, registry, dispatching>>

\* what _start writes for one entry of parameters, subscriptions, watchers
\* or queue
startWrite(to, kind, e) ==
  CASE kind = "parameters" -> send(to, setlocalLine(e[1], e[2]))
    [] kind = "subscriptions" ->
         send(to, installLine(e[2].name, e[2].priority, e[2].filterParam, e[2].filterVal))
    [] kind = "watchers" -> send(to, watchLine(e[1]))
    [] kind = "queue" -> dispatchWrites(to, msgs[e])

RECURSIVE startWritesLifo(_, _, _)
startWritesLifo(to, kind, list) ==
  IF list = <<>> THEN <<>>
  ELSE startWritesLifo(to, kind, Tail(list)) \o startWrite(to, kind, Head(list))

\* the loops of _start: the entries are written in the order they are kept
RECURSIVE startWrites(_, _, _)
startWrites(to, kind, list) ==
  IF list = <<>> THEN <<>>
  ELSE startWrite(to, kind, Head(list)) \o startWrites(to, kind, Tail(list))

reinstatedWatchersFirst(to) ==
  startWrites(to, "parameters", parameters)
  \o startWrites(to, "watchers", watchers)
  \o startWrites(to, "subscriptions", subscriptions)
  \o startWrites(to, "queue", queue)

\* everything _start writes before it signals 'connect'
reinstated(to) ==
  startWrites(to, "parameters", parameters)
  \o startWrites(to, "subscriptions", subscriptions)
  \o startWrites(to, "watchers", watchers)
  \o startWrites(to, "queue", queue)

Range(f) == {f[i] : i \in DOMAIN f}

startKeepsQueue(newStream) ==
  /\ stream' = newStream
  /\ IF connected
       THEN /\ trace' = <<>>
            /\ UNCHANGED <<connected, connecting, reconnecting, timer, readers, msgs, queue>>
       ELSE /\ timer' = "none"
            /\ connecting' = FALSE
            /\ reconnecting' = FALSE
            /\ connected' = TRUE
            /\ readers' = readers \cup {newStream}
            /\ msgs' = [k \in DOMAIN msgs |->
                          IF k \in Range(queue) THEN dispatched(msgs[k]) ELSE msgs[k]]
            /\ queue' = queue
            /\ trace' = reinstated(newStream) \o <<Emit("connect")>>

\* _start() with in_stream/out_stream being newStream
start(newStream) ==
  /\ stream' = newStream
  /\ IF connected
       THEN /\ trace' = <<>>
            /\ UNCHANGED <<connected, connecting, reconnecting, timer, readers, msgs, queue>>
       ELSE /\ timer' = "none"
            /\ connecting' = FALSE
            /\ reconnecting' = FALSE
            /\ connected' = TRUE
            /\ readers' = readers \cup {newStream}
            /\ msgs' = [k \in DOMAIN msgs |->
                          IF k \in Range(queue) THEN dispatched(msgs[k]) ELSE msgs[k]]
            /\ queue' = <<>>
            /\ trace' = reinstated(newStream) \o <<Emit("connect")>>

\* pipe mode: the activation timer fires
PipeTimer ==
  /\ pipeTimers > 0
  /\ pipeTimers' = pipeTimers - 1
  /\ start(stream)
  /\ UNCHANGED <<engine, config, sockets, registry, dispatchCallbacks, dtimers, calls, lcalls>>

\* socket s signals 'connect'
SocketConnect ==
  \E s \in DOMAIN sockets :
    /\ sockets[s] = "opening"
    /\ sockets' = [sockets EXCEPT ![s] = "open"]
    /\ start(Len(sockets))
    /\ UNCHANGED <<engine, config, pipeTimers, registry, dispatchCallbacks, dtimers, calls, lcalls>>

\* socket s signals 'end'
SocketEnd ==
  \E s \in DOMAIN sockets :
    /\ sockets[s] = "open"
    /\ sockets' = [sockets EXCEPT ![s] = "closed"]
    /\ connected' = FALSE
    /\ \E st \in {IF reconnect THEN connect(FALSE, flags) ELSE flags} :
         SetFlags(st) /\ trace' = <<Emit("disconnect")>> \o st.did
    /\ UNCHANGED <<engine, config, stream, readers, registry, dispatching>>

SocketErrorReported ==
  \E s \in DOMAIN sockets :
    /\ sockets[s] \in {"opening", "open"}
    /\ sockets' = [sockets EXCEPT ![s] = "closed"]
    /\ connected' = FALSE
    /\ \E st \in {IF reconnect THEN connect(FALSE, flags) ELSE flags} :
         SetFlags(st) /\ trace' = st.did \o <<Emit("error")>>
    /\ UNCHANGED <<engine, config, stream, readers, registry, dispatching>>

\* socket s signals 'error'
SocketError ==
  \E s \in DOMAIN sockets :
    /\ sockets[s] \in {"opening", "open"}
    /\ sockets' = [sockets EXCEPT ![s] = "closed"]
    /\ connected' = FALSE
    /\ \E st \in {IF reconnect THEN connect(FALSE, flags) ELSE flags} :
         SetFlags(st) /\ trace' = IF reconnect THEN st.did ELSE <<Emit("error")>>
    /\ UNCHANGED <<engine, config, stream, readers, registry, dispatching>>

\* ------------------------------------------------------------------------
\* Connection: dispatch
\* ------------------------------------------------------------------------
\* (typeof name === 'string') && name
ValidName(name) == name.t = "str" /\ name.s # <<>>

\* dispatch(name, params, callback) called at wall-clock second sec with the
\* high-resolution counter reading nanos; withCallback: callback is a function
dispatch(name, params, withCallback, sec, nanos) ==
  IF ~ValidName(name)
    THEN /\ trace' = <<Api("dispatch", <<name, params, withCallback>>), Throw>>
         /\ UNCHANGED dispatching
    ELSE LET message == NewMessage(name.s, params, sec, nanos)
             k == Len(msgs) + 1
             api == <<Api("dispatch", <<name, params, withCallback>>)>>
         IN /\ dispatchCallbacks' = IF withCallback
                                      THEN Put(dispatchCallbacks, message._id, k)
                                      ELSE dispatchCallbacks
            /\ dtimers' = IF withCallback THEN dtimers \cup {k} ELSE dtimers
            /\ calls' = Append(calls, [given |-> withCallback, n |-> 0])
            /\ UNCHANGED lcalls
            /\ IF connected
                 THEN /\ trace' = api \o dispatchWrites(stream, message)
                      /\ msgs' = Append(msgs, dispatched(message))
                      /\ queue' = queue
                 ELSE /\ trace' = api
                      /\ msgs' = Append(msgs, message)
                      /\ queue' = Append(queue, k)

\* the DISPATCH_TIMEOUT timer of dispatch k fires; the timers have one
\* delay, so they fire in the order they were armed
DispatchTimeout ==
  \E k \in dtimers :
    /\ \A j \in dtimers : k <= j
    /\ dtimers' = dtimers \ {k}
    /\ IF Has(dispatchCallbacks, msgs[k]._id)
         THEN /\ trace' = <<Call("dispatch", k, "timeout", Null, <<>>)>>
              /\ calls' = [calls EXCEPT ![k].n = @ + 1]
              /\ dispatchCallbacks' = Del(dispatchCallbacks, msgs[k]._id)
         ELSE /\ trace' = <<>>
              /\ UNCHANGED <<calls, dispatchCallbacks>>
    /\ UNCHANGED <<engine, config, lifecycle, registry, msgs, queue, lcalls>>

\* ------------------------------------------------------------------------
\* Connection: inbound lines
\* ------------------------------------------------------------------------
\* a line can arrive on a stream that has a readline interface and is open
CanReceive ==
  \E r \in readers : r = Stdio \/ (r \in DOMAIN sockets /\ sockets[r] = "open")

answerRetvalUntrimmed(message) ==
  IF Truthy(message._retval) THEN message._retval ELSE Null

\* the arguments an answer hands to the callback of its dispatch
answerErr(message) == IF message._processed THEN "" ELSE "not processed"

answerRetval(message) ==
  IF Truthy(message._retval) THEN Str(Trim(message._retval.s)) ELSE Null

handleKeepsRetval(message, outcome) ==
  IF outcome.kind = "return"
    THEN [message EXCEPT !._retval = IF Truthy(outcome.value) THEN outcome.value ELSE @,
                         !._processed = TRUE]
    ELSE message

handleMarksProcessed(message, outcome) ==
  IF outcome.kind = "return"
    THEN [message EXCEPT !._retval = outcome.value, !._processed = TRUE]
    ELSE [message EXCEPT !._processed = TRUE]

\* the listener of a subscription ran on an incoming message; outcome is
\* what it did: [kind |-> "return", value |-> v] or [kind |-> "throw"]
handle(message, outcome) ==
  IF outcome.kind = "return"
    THEN [message EXCEPT !._retval = outcome.value, !._processed = TRUE]
    ELSE message

Listener(who, params, retval, outcome) ==
  [op |-> "listener", who |-> who, params |-> params, retval |-> retval,
   outcome |-> outcome]

\* a line that is dropped and written an answer all the same
droppedAnswered(rx) ==
  /\ trace' = rx \o send(stream, S_MsgIn)
  /\ UNCHANGED <<registry, dispatching>>

\* if (!subscription) return: a line for a name without a subscription
dropped(rx) ==
  /\ trace' = rx
  /\ UNCHANGED <<registry, dispatching>>

\* _process(string); outcome is what the subscription listener does if it
\* is invoked.  message is the Message that parse filled from the line.
process(string, outcome) ==
  \E message \in {parse(string, decorate)} :
  LET rx == <<Raw(S_Received, string)>>
  IN IF message.error
       THEN /\ trace' = rx \o <<Emit("error")>>
            /\ UNCHANGED <<registry, dispatching>>
     ELSE IF message._type = "setlocal"
       THEN IF Has(setlocalCallbacks, message._name)
               /\ Get(setlocalCallbacks, message._name) # 0
              THEN /\ trace' = rx \o <<Call("setlocal", Get(setlocalCallbacks, message._name),
                                            IF message._success THEN "" ELSE "not processed",
                                            Str(message._value), <<>>)>>
                   /\ setlocalCallbacks' = Del(setlocalCallbacks, message._name)
                   /\ lcalls' = [lcalls EXCEPT ![Get(setlocalCallbacks, message._name)].n = @ + 1]
                   /\ UNCHANGED <<parameters, subscriptions, watchers, msgs, queue,
                                  dispatchCallbacks, dtimers, calls>>
              ELSE /\ trace' = rx
                   /\ UNCHANGED <<registry, dispatching>>
     ELSE IF message._type = "notification"
       THEN /\ trace' = IF Has(watchers, message._name)
                          THEN rx \o <<Call("watcher", Get(watchers, message._name), "",
                                            message._retval, message.params)>>
                          ELSE rx
            /\ UNCHANGED <<registry, dispatching>>
     ELSE IF message._type = "answer"
       THEN IF Has(dispatchCallbacks, message._id)
              THEN LET k == Get(dispatchCallbacks, message._id)
                   IN /\ trace' = rx \o <<Call("dispatch", k, answerErr(message),
                                               answerRetval(message), message.params)>>
                      /\ calls' = [calls EXCEPT ![k].n = @ + 1]
                      /\ dispatchCallbacks' = Del(dispatchCallbacks, message._id)
                      /\ UNCHANGED <<registry, msgs, queue, dtimers, lcalls>>
              ELSE /\ trace' = rx
                   /\ UNCHANGED <<registry, dispatching>>
     ELSE IF ~Has(subscriptions, message._name)
       THEN dropped(rx)
     ELSE LET subscription == Get(subscriptions, message._name)
          IN IF message._type = "install"
               THEN IF ~message._success
                      THEN /\ subscriptions' = Del(subscriptions, subscription.name)
                           /\ trace' = rx \o <<Emit("warning")>>
                           /\ UNCHANGED <<parameters, setlocalCallbacks, watchers, dispatching>>
                      ELSE /\ trace' = rx
                           /\ UNCHANGED <<registry, dispatching>>
             ELSE IF message._type = "incoming"
               THEN /\ trace' = rx \o <<Listener(subscription.listener, message.params,
                                                 message._retval, outcome)>>
                                   \o send(stream, acknowledgeLine(handle(message, outcome)))
                    /\ UNCHANGED <<registry, dispatching>>
             ELSE /\ trace' = rx
                  /\ UNCHANGED <<registry, dispatching>>

\* ------------------------------------------------------------------------
\* Connection: parameters, subscriptions, watchers
\* ------------------------------------------------------------------------
LOCAL_PARAMETERS ==
  (<<105, 100>> :> "string") @@  \* id
  (<<100, 105, 115, 99, 111, 110, 110, 101, 99, 116, 101, 100>> :> "boolean") @@  \* disconnected
  (S_trackparam :> "string") @@
  (<<114, 101, 97, 115, 111, 110>> :> "string") @@  \* reason
  (S_timeout :> "number") @@
  (<<116, 105, 109, 101, 98, 111, 109, 98>> :> "boolean") @@  \* timebomb
  (<<98, 117, 102, 115, 105, 122, 101>> :> "number") @@  \* bufsize
  (<<115, 101, 116, 100, 97, 116, 97>> :> "boolean") @@  \* setdata
  (<<114, 101, 101, 110, 116, 101, 114>> :> "boolean") @@  \* reenter
  (S_selfwatch :> "boolean") @@
  (S_restart :> "boolean")

ENGINE_PARAMETERS ==
  (<<118, 101, 114, 115, 105, 111, 110>> :> "string") @@  \* version
  (<<114, 101, 108, 101, 97, 115, 101>> :> "string") @@  \* release
  (<<110, 111, 100, 101, 110, 97, 109, 101>> :> "string") @@  \* nodename
  (<<114, 117, 110, 105, 100>> :> "number") @@  \* runid
  (<<99, 111, 110, 102, 105, 103, 110, 97, 109, 101>> :> "string") @@  \* configname
  (<<115, 104, 97, 114, 101, 100, 112, 97, 116, 104>> :> "string") @@  \* sharedpath
  (<<99, 111, 110, 102, 105, 103, 112, 97, 116, 104>> :> "string") @@  \* configpath
  (<<99, 102, 103, 115, 117, 102, 102, 105, 120>> :> "string") @@  \* cfgsuffix
  (<<109, 111, 100, 117, 108, 101, 112, 97, 116, 104>> :> "string") @@  \* modulepath
  (<<109, 111, 100, 115, 117, 102, 102, 105, 120>> :> "string") @@  \* modsuffix
  (<<108, 111, 103, 102, 105, 108, 101>> :> "string") @@  \* logfile
  (<<99, 108, 105, 101, 110, 116, 109, 111, 100, 101>> :> "boolean") @@  \* clientmode
  (<<115, 117, 112, 101, 114, 118, 105, 115, 101, 100>> :> "boolean") @@  \* supervised
  (<<109, 97, 120, 119, 111, 114, 107, 101, 114, 115>> :> "number")  \* maxworkers

S_engineDot == <<101, 110, 103, 105, 110, 101, 46>>  \* "engine."
S_configDot == <<99, 111, 110, 102, 105, 103, 46>>  \* "config."

\* key.match(/^prefix/)
StartsWith(str, prefix) ==
  Len(str) >= Len(prefix) /\ SubSeq(str, 1, Len(prefix)) = prefix

\* validateLocalValue(key, value): TRUE when it returns, FALSE when it throws
validateLocalValue(key, value) ==
  LET isEngine == StartsWith(key, S_engineDot)
      param == SubSeq(key, Len(S_engineDot) + 1, Len(key))
      query == ~Truthy(value)
                 /\ IF isEngine THEN param \in DOMAIN ENGINE_PARAMETERS
                    ELSE StartsWith(key, S_configDot)
  IN \/ query
     \/ /\ key \in DOMAIN LOCAL_PARAMETERS
        /\ TypeOf(value) = LOCAL_PARAMETERS[key]

\* a function value; id tells the functions of the application apart
Fn(id) == [t |-> "fn", id |-> id]

setlocalResultKeepsFirst(params, cbs, name, value, callback) ==
  [parameters |-> Put(params, name, value),
   setlocalCallbacks |-> IF Has(cbs, name) THEN cbs ELSE Put(cbs, name, callback),
   writes |-> IF connected THEN send(stream, setlocalLine(name, value)) ELSE <<>>]

\* the body of setlocal(name, value, callback) after validation; callback is
\* 0 when undefined.  Gives the new parameters, setlocalCallbacks and writes.
setlocalResult(params, cbs, name, value, callback) ==
  [parameters |-> Put(params, name, value),
   setlocalCallbacks |-> Put(cbs, name, callback),
   writes |-> IF connected THEN send(stream, setlocalLine(name, value)) ELSE <<>>]

\* setlocal(name, value, callback)
setlocal(name, value, callback) ==
  IF ~validateLocalValue(name, value)
    THEN /\ trace' = <<Api("setlocal", <<name, value, callback>>), Throw>>
         /\ UNCHANGED registry
    ELSE LET r == setlocalResult(parameters, setlocalCallbacks, name, value, callback)
         IN /\ parameters' = r.parameters
            /\ setlocalCallbacks' = r.setlocalCallbacks
            /\ trace' = <<Api("setlocal", <<name, value, callback>>)>> \o r.writes
            /\ UNCHANGED <<subscriptions, watchers>>

\* /^\d{0,5}$/.test(priority)
ValidPriority(priority) ==
  LET str == toString(priority)
  IN Len(str) <= 5 /\ \A i \in 1..Len(str) : str[i] >= 48 /\ str[i] <= 57

subscribeRejectsInvalid(name, listener, priority) ==
  \/ ~ValidName(name)
  \/ listener.t # "fn"
  \/ ~ValidPriority(priority)

\* the checks of subscribe() on its arguments after the optional ones were
\* shifted: TRUE when it throws
subscribeRejects(name, listener, priority) ==
  \/ ~ValidName(name)
  \/ listener.t # "fn"
  \/ ~ValidPriority(priority)
  \/ Has(subscriptions, name.s)

\* subscribe(name, priority, filterParam, filterVal, listener)
subscribe(name, priority, filterParam, filterVal, listener) ==
  LET shift1 == priority.t = "fn"
      shift2 == ~shift1 /\ filterParam.t = "fn"
      listener1 == IF shift1 THEN priority ELSE IF shift2 THEN filterParam ELSE listener
      priority0 == IF shift1 THEN Null ELSE priority
      filterParam1 == IF shift1 \/ shift2 THEN Null ELSE filterParam
      priority1 == IF Truthy(priority0) THEN priority0 ELSE Str(<<>>)
      api == <<Api("subscribe", <<name, priority, filterParam, filterVal, listener>>)>>
  IN IF subscribeRejects(name, listener1, priority1)
       THEN /\ trace' = api \o <<Throw>>
            /\ UNCHANGED registry
       ELSE /\ subscriptions' = Put(subscriptions, name.s,
                                    [name |-> name.s, priority |-> priority1,
                                     filterParam |-> filterParam1, filterVal |-> filterVal,
                                     listener |-> listener1.id])
            /\ trace' = api \o (IF connected
                                   THEN send(stream, installLine(name.s, priority1,
                                                                 filterParam1, filterVal))
                                   ELSE <<>>)
            /\ UNCHANGED <<parameters, setlocalCallbacks, watchers>>

\* unsubscribe(name)
unsubscribe(name) ==
  /\ subscriptions' = Del(subscriptions, name)
  /\ trace' = <<Api("unsubscribe", <<name>>)>>
              \o (IF connected THEN send(stream, uninstallLine(name)) ELSE <<>>)
  /\ UNCHANGED <<parameters, setlocalCallbacks, watchers>>

\* watch(name, listener)
watch(name, listener) ==
  IF ~ValidName(name) \/ listener.t # "fn"
    THEN /\ trace' = <<Api("watch", <<name, listener>>), Throw>>
         /\ UNCHANGED registry
    ELSE LET api == <<Api("watch", <<name, listener>>)>>
             promote == ~(Has(parameters, S_selfwatch) /\ Truthy(Get(parameters, S_selfwatch)))
             params1 == IF promote THEN Put(parameters, S_selfwatch, Bool(TRUE)) ELSE parameters
             r == IF promote /\ connected
                    THEN setlocalResult(params1, setlocalCallbacks, S_selfwatch, Bool(TRUE), 0)
                    ELSE [parameters |-> params1, setlocalCallbacks |-> setlocalCallbacks,
                          writes |-> <<>>]
         IN /\ parameters' = r.parameters
            /\ setlocalCallbacks' = r.setlocalCallbacks
            /\ IF Has(watchers, name.s)
                 THEN /\ trace' = api \o r.writes \o <<Throw>>
                      /\ UNCHANGED <<subscriptions, watchers>>
                 ELSE /\ watchers' = Put(watchers, name.s, listener.id)
                      /\ trace' = api \o r.writes
                                  \o (IF connected THEN send(stream, watchLine(name.s)) ELSE <<>>)
                      /\ UNCHANGED subscriptions

\* unwatch(name)
unwatch(name) ==
  /\ watchers' = Del(watchers, name)
  /\ trace' = <<Api("unwatch", <<name>>)>>
              \o (IF connected THEN send(stream, unwatchLine(name)) ELSE <<>>)
  /\ UNCHANGED <<parameters, setlocalCallbacks, subscriptions>>

\* ------------------------------------------------------------------------
\* Inputs: what the application passes and what the engine sends
\* ------------------------------------------------------------------------
N_a == <<97>>   \* message name "a"
N_b == <<98>>   \* message name "b"
P_k == <<107>>  \* parameter key "k"
P_v == <<118>>  \* parameter value "v"

\* line.join(':')
RECURSIVE Join(_)
Join(fields) ==
  IF Len(fields) = 1 THEN fields[1] ELSE fields[1] \o Colon \o Join(Tail(fields))

\* the clock readings a Message is created at: Math.floor(Date.now() / 1000)
\* and process.hrtime()[1]
Seconds == {1}
Nanos == {0, 1}

\* the ids new Message() produces at these readings, "10" and "11", and an
\* id it does not produce
AnswerIds == {<<49, 48>>, <<49, 49>>, <<55>>}

\* answers of the engine (%%<message:<id>:<processed>:<name>:<retval>[:k=v]),
\* for the ids of dispatched messages and for an id never dispatched
AnswerLines ==
  {Join(<<S_MsgIn, id>> \o rest) :
     id \in AnswerIds,
     rest \in { <<S_true, N_a, <<>> >>,
                <<S_true, N_a, <<32, 104, 105, 32>>, <<107, 46, 120, 61, 116, 114, 117, 101>> >>,
                <<S_false, N_a, <<32, 104, 105, 32>>, <<107, 46, 120, 61, 116, 114, 117, 101>> >> }}
     \* processed with retval "" and no parameters; processed or not with
     \* retval " hi " and the parameter k.x=true

NoOutcome == [kind |-> "none"]

S_hi == <<104, 105>>                                       \* "hi"
S_processed == <<112, 114, 111, 99, 101, 115, 115, 101, 100>>  \* "processed"
S_retval == <<114, 101, 116, 118, 97, 108>>                \* "retval"
S_kx == <<107, 46, 120, 61, 116, 114, 117, 101>>           \* "k.x=true"

\* messages of the engine (%%>message:<id>:<time>:<name>:<retval>[:k=v]):
\* id "x" with no retval and no parameters, id "y" with retval "r" and the
\* parameter k.x=true
IncomingLines ==
  {Join(<<S_MsgOut>> \o rest[1] \o <<name>> \o rest[2]) :
     name \in {N_a, N_b},
     rest \in { << <<<<120>>, <<49>>>>, << <<>> >> >>,
                << <<<<121>>, <<50>>>>, << <<114>>, S_kx >> >> }}

\* what a listener of the application does with a message: it returns
\* nothing, null, a string or an object with the keys processed and retval,
\* or it throws
HandlerOutcomes ==
  { [kind |-> "return", value |-> Undef],
    [kind |-> "return", value |-> Null],
    [kind |-> "return", value |-> Str(S_hi)],
    [kind |-> "return",
     value |-> Obj(<< <<S_processed, Bool(FALSE)>>, <<S_retval, Str(S_hi)>> >>)],
    [kind |-> "throw"] }

\* the application calls dispatch()
Dispatch ==
  /\ Len(msgs) < MaxDispatch
  /\ \E name \in {Str(N_a), Str(<<>>)},
        params \in {<< <<P_k, Str(P_v)>> >>},
        withCallback \in BOOLEAN,
        sec \in Seconds,
        nanos \in Nanos :
       dispatch(name, params, withCallback, sec, nanos)
  /\ UNCHANGED <<engine, config, lifecycle, registry>>

\* the engine answers a dispatch
ProcessAnswer ==
  /\ CanReceive
  /\ \E line \in AnswerLines : process(line, NoOutcome)
  /\ UNCHANGED <<engine, config, lifecycle>>

\* the application calls dispatch() without a callback (fire and forget)
DispatchNoCallback ==
  /\ Len(msgs) < MaxDispatch
  /\ \E sec \in Seconds, nanos \in Nanos :
       dispatch(Str(N_a), << <<P_k, Str(P_v)>> >>, FALSE, sec, nanos)
  /\ UNCHANGED <<engine, config, lifecycle, registry>>

\* subscribe(name, listener) and subscribe(name, priority, filterParam,
\* filterVal, listener)
ValidSubscribeInputs ==
  { <<Str(N_a), Fn(1), Undef, Undef, Undef>>,
    <<Str(N_b), Num(50), Str(P_k), Str(P_v), Fn(2)>> }

SubscribeWith(inputs) ==
  /\ \E in \in inputs : subscribe(in[1], in[2], in[3], in[4], in[5])
  /\ UNCHANGED <<engine, config, lifecycle, dispatching>>

\* the application calls subscribe() with arguments that pass validation
SubscribeValid == SubscribeWith(ValidSubscribeInputs)

\* the same and subscribe(name, priority, undefined, undefined, listener)
\* for the first name with another priority and listener
SubscribeInputs ==
  { <<Str(N_a), Fn(1), Undef, Undef, Undef>>,
    <<Str(N_a), Num(70), Undef, Undef, Fn(3)>>,
    <<Str(N_b), Num(50), Str(P_k), Str(P_v), Fn(2)>> }

\* the application calls subscribe(), also for a name it has subscribed
\* with other arguments
Subscribe == SubscribeWith(SubscribeInputs)

\* the engine hands over a message
ProcessIncoming ==
  /\ CanReceive
  /\ \E line \in IncomingLines, outcome \in HandlerOutcomes : process(line, outcome)
  /\ UNCHANGED <<engine, config, lifecycle>>

\* the application calls unsubscribe()
Unsubscribe ==
  /\ \E name \in {N_a, N_b} : unsubscribe(name)
  /\ UNCHANGED <<engine, config, lifecycle, dispatching>>

WatchWith(inputs) ==
  /\ \E in \in inputs : watch(in[1], in[2])
  /\ UNCHANGED <<engine, config, lifecycle, dispatching>>

\* the application calls watch() with arguments that pass validation
WatchValid == WatchWith({ <<Str(N_a), Fn(1)>> })

\* the application calls unwatch()
Unwatch ==
  /\ \E name \in {N_a} : unwatch(name)
  /\ UNCHANGED <<engine, config, lifecycle, dispatching>>

\* subscribe() with an empty name, a name that is not a string, an invalid
\* priority and no listener, and with arguments that pass validation
RejectableSubscribeInputs ==
  { <<Str(N_a), Fn(1), Undef, Undef, Undef>>,
    <<Str(<<>>), Fn(1), Undef, Undef, Undef>>,
    <<Num(5), Fn(1), Undef, Undef, Undef>>,
    <<Str(N_a), Str(<<120, 49>>), Undef, Undef, Fn(1)>>,
    <<Str(N_a), Num(50), Undef, Undef, Undef>> }

\* the application calls subscribe() with arguments that may fail validation
SubscribeRejectable == SubscribeWith(RejectableSubscribeInputs)

\* watch() with an empty name, a name that is not a string and no listener,
\* and with arguments that pass validation
RejectableWatchInputs ==
  { <<Str(N_a), Fn(1)>>,
    <<Str(<<>>), Fn(1)>>,
    <<Num(5), Fn(1)>>,
    <<Str(N_a), Undef>> }

\* the application calls watch() with arguments that may fail validation
WatchRejectable == WatchWith(RejectableWatchInputs)

\* setlocal('timeout', 5), setlocal('selfwatch', false), setlocal of the
\* unknown parameter 'a' and setlocal('timeout', 'v')
SetlocalInputs ==
  { <<S_timeout, Num(5)>>,
    <<S_selfwatch, Bool(FALSE)>>,
    <<N_a, Str(P_v)>>,
    <<S_timeout, Str(P_v)>> }

\* the application calls setlocal() without a callback
Setlocal ==
  /\ \E in \in SetlocalInputs : setlocal(in[1], in[2], 0)
  /\ UNCHANGED <<engine, config, lifecycle, dispatching>>

\* characters of the wire alphabet: a control character, ':', '%', a
\* plain letter, and the letters that stand for the control character and
\* for '%' after a '%'
WireChars == {10, 58, 37, 97, 74, 101}

WireStrings == UNION {[1..n -> WireChars] : n \in 0..MaxLen}

\* the extra argument of escape: none, '%', ':' or the plain letter
Extras == {-1, 37, 58, 97}

\* escape(str, extra) is applied to the given string
Escape ==
  /\ Len(trace) = 1 /\ trace[1].op = "given" /\ Len(trace[1].args) = 2
  /\ trace' = Append(trace, Applied("escape", escape(trace[1].args[1], trace[1].args[2])))
  /\ UNCHANGED <<engine, config, lifecycle, registry, dispatching>>

\* unescape(str) is applied to what escape returned
Unescape ==
  /\ Len(trace) = 2 /\ trace[2] = Applied("escape", trace[2].result)
  /\ trace' = Append(trace, Applied("unescape", unescape(trace[2].result)))
  /\ UNCHANGED <<engine, config, lifecycle, registry, dispatching>>

\* keys and leaves of the nested parameters given to yatefy
K_A == <<65>>
K_B == <<66>>
K_route == <<114, 111, 117, 116, 101>>
K_gt == <<103, 116>>
K_nature == <<110, 97, 116, 117, 114, 101>>
K_plan == <<112, 108, 97, 110>>
K_value == <<118, 97, 108, 117, 101>>

LeafOf(key) ==
  CASE key = K_nature -> Str(<<105, 110, 116, 108>>)   \* 'intl'
    [] key = K_plan -> Str(<<105, 115, 100, 110>>)      \* 'isdn'
    [] key = K_value -> Str(<<50, 48, 48, 50>>)         \* '2002'
    [] OTHER -> Str(<<54>>)                             \* '6'

\* the keys of a node in every order they can be listed in
Orders(keys) ==
  UNION {{f \in [1..n -> keys] : \A i, j \in 1..n : f[i] = f[j] => i = j} :
           n \in 1..Cardinality(keys)}

\* the nodes { nature, plan, value } with leaves, with at least one key
\* besides 'value', in every order of the keys
InnerNodes ==
  {Obj([i \in DOMAIN f |-> <<f[i], LeafOf(f[i])>>]) :
     f \in {g \in Orders({K_nature, K_plan, K_value}) : \E i \in DOMAIN g : g[i] # K_value}}

\* { A: { route, gt: <inner node> }, B } in every order of the keys, route
\* and B being optional
Structures ==
  {[i \in DOMAIN top |->
      IF top[i] = K_B THEN <<K_B, LeafOf(K_B)>>
      ELSE <<K_A, Obj([j \in DOMAIN mid |->
                         IF mid[j] = K_gt THEN <<K_gt, inner>>
                         ELSE <<mid[j], LeafOf(mid[j])>>])>>] :
     top \in {f \in Orders({K_A, K_B}) : \E i \in DOMAIN f : f[i] = K_A},
     mid \in {f \in Orders({K_route, K_gt}) : \E i \in DOMAIN f : f[i] = K_gt},
     inner \in InnerNodes}

\* yatefy(object) is applied to the given parameters
Yatefy ==
  /\ Len(trace) = 1 /\ trace[1].op = "given" /\ Len(trace[1].args) = 1
  /\ trace' = Append(trace, Applied("yatefy", yatefy(trace[1].args[1], Undef)))
  /\ UNCHANGED <<engine, config, lifecycle, registry, dispatching>>

\* beautify(object) is applied to what yatefy returned
Beautify ==
  /\ Len(trace) = 2 /\ trace[2] = Applied("yatefy", trace[2].result)
  /\ trace' = Append(trace, Applied("beautify", beautify(trace[2].result)))
  /\ UNCHANGED <<engine, config, lifecycle, registry, dispatching>>

\* setlocal('trackparam', 'x', callback), getlocal('trackparam', callback)
\* and getlocal('id', callback); getlocal(name, callback) is
\* setlocal(name, '', callback)
LocalRequests ==
  { <<S_trackparam, Str(<<120>>)>>,
    <<S_trackparam, Str(<<>>)>>,
    << <<105, 100>>, Str(<<>>)>> }

\* the application calls setlocal() or getlocal() with a callback, which
\* is a new function at every call
SetlocalCallback ==
  /\ Len(lcalls) < MaxLocal
  /\ \E in \in LocalRequests :
       /\ setlocal(in[1], in[2], Len(lcalls) + 1)
       /\ lcalls' = Append([k \in DOMAIN lcalls |->
                              IF Has(setlocalCallbacks, in[1])
                                 /\ Get(setlocalCallbacks, in[1]) = k
                                THEN [lcalls[k] EXCEPT !.superseded = TRUE]
                                ELSE lcalls[k]],
                           [name |-> in[1], n |-> 0, superseded |-> FALSE])
  /\ UNCHANGED <<engine, config, lifecycle, msgs, queue, dispatchCallbacks, dtimers, calls>>

\* answers of the engine to setlocal (%%<setlocal:<name>:<value>:<success>)
SetlocalLines ==
  {Join(<<S_SetlocalIn, name, <<120>>, success>>) :
     name \in {S_trackparam, <<105, 100>>}, success \in {S_true, S_false}}

\* the engine answers a setlocal
ProcessSetlocal ==
  /\ CanReceive
  /\ \E line \in SetlocalLines : process(line, NoOutcome)
  /\ UNCHANGED <<engine, config, lifecycle>>

\* confirmations of the engine (%%<install:<priority>:<name>:<success>)
InstallLines ==
  {Join(<<S_InstallIn, <<53, 48>>, name, success>>) :
     name \in {N_a, N_b}, success \in {S_true, S_false}}

\* the engine confirms or refuses an install
ProcessInstall ==
  /\ CanReceive
  /\ \E line \in InstallLines : process(line, NoOutcome)
  /\ UNCHANGED <<engine, config, lifecycle>>

\* the application calls setlocal('timeout', 5) without a callback
SetTimeout ==
  /\ setlocal(S_timeout, Num(5), 0)
  /\ UNCHANGED <<engine, config, lifecycle, dispatching>>

\* ------------------------------------------------------------------------
\* Specifications
\* ------------------------------------------------------------------------
SocketLifecycle ==
  \/ Connect
  \/ ConnectTimer
  \/ Watchdog
  \/ SocketConnect
  \/ SocketEnd
  \/ SocketError

Lifecycle ==
  \/ SocketLifecycle
  \/ PipeTimer

\* dispatch, its timer and its answers over a reconnecting socket
InitDispatch == Init /\ ~piped /\ reconnect

NextDispatch ==
  \/ SocketLifecycle
  \/ Dispatch
  \/ DispatchTimeout
  \/ ProcessAnswer

SpecDispatch == InitDispatch /\ [][NextDispatch]_vars

\* what is registered and queued, and what every connect writes
NextReinstate ==
  \/ Lifecycle
  \/ DispatchNoCallback
  \/ SubscribeValid
  \/ Unsubscribe
  \/ WatchValid
  \/ Unwatch

InitReinstate == Init /\ decorate /\ reconnect

SpecReinstate == InitReinstate /\ [][NextReinstate]_vars

\* subscriptions and the messages the engine hands over
NextSubscribe ==
  \/ Lifecycle
  \/ Subscribe
  \/ Unsubscribe
  \/ ProcessIncoming

InitSubscribe == Init /\ reconnect

SpecSubscribe == InitSubscribe /\ [][NextSubscribe]_vars

\* calls of the application that validation may reject, over a pipe
NextValidate ==
  \/ Connect
  \/ PipeTimer
  \/ Dispatch
  \/ SubscribeRejectable
  \/ WatchRejectable
  \/ Setlocal

InitValidate == Init /\ piped /\ decorate /\ reconnect

SpecValidate == InitValidate /\ [][NextValidate]_vars

\* watch() for two names with different listeners
WatchNames == WatchWith({ <<Str(N_a), Fn(1)>>, <<Str(N_b), Fn(2)>> })

\* notifications of the engine (%%<message::<processed>:<name>:<retval>[:k=v],
\* the id is empty) for two names
NotificationLines ==
  {Join(<<S_MsgIn, <<>>, S_true, name>> \o rest) :
     name \in {N_a, N_b},
     rest \in { << <<>> >>, << <<32, 104, 105, 32>>, S_kx >> }}

\* the engine sends a notification
ProcessNotification ==
  /\ CanReceive
  /\ \E line \in NotificationLines : process(line, NoOutcome)
  /\ UNCHANGED <<engine, config, lifecycle>>

\* watchers, their notifications and setlocal calls over a pipe
NextWatch ==
  \/ Connect
  \/ PipeTimer
  \/ WatchNames
  \/ Unwatch
  \/ Setlocal
  \/ ProcessNotification

SpecWatch == InitValidate /\ [][NextWatch]_vars

\* the %%>install lines among what a handler did
requested(did) ==
  [i \in DOMAIN SelectSeq(did, LAMBDA e : e.op = "write"
                                          /\ StartsWith(e.line, S_InstallOut \o Colon)) |->
     SelectSeq(did, LAMBDA e : e.op = "write"
                               /\ StartsWith(e.line, S_InstallOut \o Colon))[i].line]

\* pipe mode: the activation timer fires; the engine receives the installs
PipeTimerInstalls ==
  /\ pipeTimers > 0
  /\ pipeTimers' = pipeTimers - 1
  /\ start(stream)
  /\ installs' = installs \o requested(trace')
  /\ UNCHANGED <<config, sockets, registry, dispatchCallbacks, dtimers, calls, lcalls>>

\* the application calls subscribe(); the engine receives the install
SubscribeInstalls ==
  /\ Len(installs) < MaxInFlight
  /\ \E in \in SubscribeInputs : subscribe(in[1], in[2], in[3], in[4], in[5])
  /\ installs' = installs \o requested(trace')
  /\ UNCHANGED <<config, lifecycle, dispatching>>

\* %%<install:<priority>:<name>:<success> for the line %%>install:...
confirmation(line, success) ==
  Join(<<S_InstallIn, Split(line, ChColon)[2], Split(line, ChColon)[3], success>>)

\* the engine confirms or refuses the oldest install it has not answered
ProcessConfirmation ==
  /\ CanReceive
  /\ installs # <<>>
  /\ \E success \in {S_true, S_false} :
       process(confirmation(Head(installs), success), NoOutcome)
  /\ installs' = Tail(installs)
  /\ UNCHANGED <<config, lifecycle>>

\* subscriptions that are removed and made again, their confirmations in
\* the order of the installs, and the messages of the engine, over a pipe
NextResubscribe ==
  \/ Connect
  \/ PipeTimerInstalls
  \/ SubscribeInstalls
  \/ Unsubscribe
  \/ ProcessConfirmation
  \/ ProcessIncoming

SpecResubscribe == InitValidate /\ [][NextResubscribe]_vars

\* subscriptions and their confirmations over a reconnecting socket
NextInstall ==
  \/ SocketLifecycle
  \/ SubscribeValid
  \/ ProcessInstall

InitInstall == Init /\ ~piped /\ decorate /\ reconnect

SpecInstall == InitInstall /\ [][NextInstall]_vars

\* setlocal and getlocal with callbacks and their answers, over a pipe
NextLocal ==
  \/ Connect
  \/ PipeTimer
  \/ SetlocalCallback
  \/ ProcessSetlocal

SpecLocal == InitValidate /\ [][NextLocal]_vars

\* escape and unescape applied to a string over the wire alphabet
InitCodec ==
  /\ Constructed /\ piped /\ decorate /\ reconnect
  /\ \E str \in WireStrings, extra \in Extras : trace = <<Given(<<Str(str), extra>>)>>

NextCodec ==
  \/ Escape
  \/ Unescape

SpecCodec == InitCodec /\ [][NextCodec]_vars

\* yatefy and beautify applied to nested parameters
InitDecoration ==
  /\ Constructed /\ piped /\ decorate /\ reconnect
  /\ \E object \in Structures : trace = <<Given(<<object>>)>>

NextDecoration ==
  \/ Yatefy
  \/ Beautify

SpecDecoration == InitDecoration /\ [][NextDecoration]_vars

\* the connection lifecycle alone, in pipe and in socket mode, with and
\* without auto-reconnect
Next == Lifecycle

Spec == Init /\ [][Next]_vars

\* ------------------------------------------------------------------------
\* What a step shows in trace
\* ------------------------------------------------------------------------
\* the step processed an inbound line
Received ==
  /\ trace # <<>>
  /\ trace[1].op = "raw"
  /\ SubSeq(trace[1].line, 1, 2) = S_Received

ReceivedLine == SubSeq(trace[1].line, 3, Len(trace[1].line))

\* the fields of the inbound line
Fields == Split(ReceivedLine, ChColon)

\* the step served the call fn of the application
Served(fn) == trace # <<>> /\ trace[1].op = "api" /\ trace[1].fn = fn

\* the lines the step wrote, in the order it wrote them
Written == [i \in DOMAIN SelectSeq(trace, LAMBDA e : e.op = "write") |->
              SelectSeq(trace, LAMBDA e : e.op = "write")[i].line]

\* the callbacks and listeners the step invoked
Invoked == SelectSeq(trace, LAMBDA e : e.op \in {"call", "listener"})

\* the step changed nothing the Connection holds
NoStateChange == UNCHANGED <<config, lifecycle, registry, dispatching>>

\* ------------------------------------------------------------------------
\* Dispatch callbacks
\* ------------------------------------------------------------------------
\* C1: the callback of a dispatch is invoked at most once, whichever of its
\* answer and its timer comes first.
C1_CallbackAtMostOnce == \A k \in DOMAIN calls : calls[k].n <= 1

\* C2: once the timer of a dispatch made with a callback has fired, the
\* callback has been invoked (by an answer or by the timer) and no
\* dispatchCallbacks entry refers to it any more; the timer always fires
\* DISPATCH_TIMEOUT after the dispatch, whatever the connection does.
C2_CallbackInvokedByTimeout ==
  \A k \in DOMAIN calls :
    (calls[k].given /\ k \notin dtimers) =>
      /\ calls[k].n >= 1
      /\ \A i \in DOMAIN dispatchCallbacks : dispatchCallbacks[i][2] # k

\* the step processed an answer: %%<message with a non-empty id
AnswerStep ==
  /\ Received
  /\ LET f == Fields IN f[1] = S_MsgIn /\ Len(f) >= 5 /\ f[2] # <<>>

\* the parameters of the answers of AnswerLines, as the callback gets them
AnswerParams(f) ==
  IF Len(f) < 6 THEN <<>>
  ELSE IF decorate THEN << <<P_k, Obj(<< <<<<120>>, Bool(TRUE)>> >>)>> >>
  ELSE << <<<<107, 46, 120>>, Str(S_true)>> >>

\* C3: an answer with id X invokes the callback of a dispatch whose message
\* id is X and no other: with an error when processed is false, otherwise
\* with no error, the trimmed retval and the parameters of the answer.  An
\* answer whose id has no dispatchCallbacks entry invokes nothing, writes
\* nothing and changes no state.
C3_AnswerInvokesMatchingCallback ==
  [][Received' =>
       \A f \in {Fields'}, invoked \in {Invoked'} :
         (f[1] = S_MsgIn /\ Len(f) >= 5 /\ f[2] # <<>>) =>
          IF Has(dispatchCallbacks, f[2])
            THEN /\ Len(invoked) = 1
                 /\ Written' = <<>>
                 /\ LET call == invoked[1]
                    IN /\ call.op = "call" /\ call.fn = "dispatch"
                       /\ call.who \in DOMAIN msgs
                       /\ msgs[call.who]._id = f[2]
                       /\ calls[call.who].given
                       /\ calls'[call.who].n = calls[call.who].n + 1
                       /\ IF f[3] = S_true
                            THEN /\ call.err = ""
                                 /\ call.retval = IF f[5] = <<>> THEN Null
                                                  ELSE Str(Trim(f[5]))
                                 /\ call.params = AnswerParams(f)
                            ELSE call.err # ""
            ELSE /\ invoked = <<>>
                 /\ Written' = <<>>
                 /\ NoStateChange]_vars

\* an answer with retval " hi " and a parameter reached its callback
C3_Witness ==
  /\ AnswerStep
  /\ Len(Invoked) = 1
  /\ Invoked[1].err = ""
  /\ Invoked[1].retval = Str(S_hi)
  /\ Invoked[1].params # <<>>

\* ------------------------------------------------------------------------
\* The outbound queue and what a connect writes
\* ------------------------------------------------------------------------
\* the step made the connection connected
ConnectStep == ~connected /\ connected'

\* the %%>message lines among lines
MessageLines(lines) == SelectSeq(lines, LAMBDA l : StartsWith(l, S_MsgOut \o Colon))

\* line is the %%>message line of the dispatched message
IsLineOf(line, message) ==
  \A f \in {Split(line, ChColon)} :
    /\ Len(f) >= 5
    /\ f[1] = S_MsgOut
    /\ f[2] = message._id
    /\ f[3] = message._origin
    /\ f[4] = message._name

\* C4: a message dispatched while not connected is not written but appended
\* to the queue; the step that makes the connection connected writes all
\* queued messages, each once and in the order they were submitted, and
\* empties the queue; a message dispatched while connected is written by
\* its own dispatch step, hence after them.
C4_QueueWrittenInSubmissionOrder ==
  [][/\ (Served("dispatch")' /\ Len(msgs') = Len(msgs) + 1) =>
          IF connected
            THEN /\ queue' = queue
                 /\ Len(Written') = 1
                 /\ IsLineOf(Written'[1], msgs'[Len(msgs')])
            ELSE /\ queue' = Append(queue, Len(msgs'))
                 /\ Written' = <<>>
     /\ ConnectStep =>
          \A w \in {MessageLines(Written')} :
            /\ Len(w) = Len(queue)
            /\ \A i \in DOMAIN w : IsLineOf(w[i], msgs[queue[i]])
            /\ queue' = <<>>
     /\ (connected' /\ ~ConnectStep /\ ~Served("dispatch")') =>
          MessageLines(Written') = <<>>]_vars

\* a connect has just written two queued messages with different ids
C4_Witness ==
  /\ connected
  /\ queue = <<>>
  /\ trace # <<>>
  /\ trace[Len(trace)] = Emit("connect")
  /\ \E w \in {MessageLines(Written)} :
       /\ Len(w) = 2
       /\ IsLineOf(w[1], msgs[1])
       /\ IsLineOf(w[2], msgs[2])
       /\ msgs[1]._id # msgs[2]._id

\* the first field (the verb) and the name field of a line written at connect
VerbOf(line) == Split(line, ChColon)[1]

NameOf(line) ==
  \* %%>install:<priority>:<name>..., %%>setlocal:<name>:..., %%>watch:<name>
  IF VerbOf(line) = S_InstallOut THEN Split(line, ChColon)[3] ELSE Split(line, ChColon)[2]

\* C5: the step that makes the connection connected writes, in this order,
\* one setlocal per entry of parameters, one install per subscription, one
\* watch per watcher and then the queued messages, and signals 'connect'
\* only after all of them; unsubscribe and unwatch remove the registration,
\* so that it is not among those a later connect installs.
C5_ReinstatementOrder ==
  [][/\ ConnectStep =>
          \A w \in {Written'} :
            LET nP == Len(parameters)
                nS == Len(subscriptions)
                nW == Len(watchers)
                nQ == Len(queue)
            IN /\ Len(w) = nP + nS + nW + nQ
               /\ \A i \in 1..nP :
                    VerbOf(w[i]) = S_SetlocalOut /\ NameOf(w[i]) = parameters[i][1]
               /\ \A i \in 1..nS :
                    /\ VerbOf(w[nP + i]) = S_InstallOut
                    /\ NameOf(w[nP + i]) = subscriptions[i][1]
               /\ \A i \in 1..nW :
                    /\ VerbOf(w[nP + nS + i]) = S_WatchOut
                    /\ NameOf(w[nP + nS + i]) = watchers[i][1]
               /\ \A i \in 1..nQ : IsLineOf(w[nP + nS + nW + i], msgs[queue[i]])
               /\ trace'[Len(trace')] = Emit("connect")
               /\ \A i \in 1..(Len(trace') - 1) : trace'[i].op \in {"raw", "write"}
     /\ Served("unsubscribe")' => ~Has(subscriptions', trace'[1].args[1])
     /\ Served("unwatch")' => ~Has(watchers', trace'[1].args[1])
     /\ ~ConnectStep => \A i \in DOMAIN trace' : trace'[i] # Emit("connect")]_vars

\* a connect has just written a setlocal, an install, a watch and a queued
\* message, and the name "b" that was unsubscribed or never subscribed is
\* not among them
C5_Witness ==
  /\ connected
  /\ trace # <<>>
  /\ trace[Len(trace)] = Emit("connect")
  /\ Len(subscriptions) = 1
  /\ Len(watchers) = 1
  /\ \A w \in {Written} :
       /\ Len(w) = Len(parameters) + 3
       /\ VerbOf(w[Len(w) - 2]) = S_InstallOut
       /\ VerbOf(w[Len(w) - 1]) = S_WatchOut
       /\ VerbOf(w[Len(w)]) = S_MsgOut

\* ------------------------------------------------------------------------
\* Subscriptions and acknowledgments
\* ------------------------------------------------------------------------
\* C6: at most one subscription exists per name.  subscribe() for a name
\* that is subscribed throws, writes nothing and leaves the subscription as
\* it is; for a name that is not subscribed it succeeds, and unsubscribe()
\* leaves its name not subscribed.  (The calls of Subscribe pass the other
\* validations.)
C6_SubscriptionUnique ==
  [][/\ \A i, j \in DOMAIN subscriptions' :
          subscriptions'[i][1] = subscriptions'[j][1] => i = j
     /\ Served("subscribe")' =>
          \A name \in {trace'[1].args[1].s} :
            IF Has(subscriptions, name)
              THEN /\ trace'[Len(trace')] = Throw
                   /\ Written' = <<>>
                   /\ subscriptions' = subscriptions
              ELSE /\ \A i \in DOMAIN trace' : trace'[i] # Throw
                   /\ Has(subscriptions', name)
                   /\ Get(subscriptions', name).name = name
     /\ Served("unsubscribe")' => ~Has(subscriptions', trace'[1].args[1])]_vars

\* while connected, subscribe("a", 70, listener 3) was refused and the
\* subscription of "a" with listener 1 is still there
C6_Witness ==
  /\ connected
  /\ Served("subscribe")
  /\ trace[Len(trace)] = Throw
  /\ trace[1].args[5] = Fn(3)
  /\ Has(subscriptions, N_a)
  /\ Get(subscriptions, N_a).listener = 1

\* the fields of the one line the step wrote
AckFields == Split(Written[1], ChColon)

\* the step handed an incoming message to a listener and the listener did
\* what kinds says
Handled(kinds) ==
  /\ Received
  /\ Len(trace) >= 2
  /\ trace[2].op = "listener"
  /\ trace[2].outcome.kind \in kinds

RetvalText(value) ==
  CASE value = Undef -> S_undefined
    [] value = Null -> <<>>
    [] value.t = "str" -> value.s
    [] value.t = "obj" -> S_object

C9_ThrowAcknowledgedProcessed ==
  [][Handled({"throw"})' =>
       /\ Len(Written') = 1
       /\ \A i \in DOMAIN trace' : trace'[i] # Throw
       /\ AckFields'[3] = S_true]_vars

\* C9 amended: when the listener throws, the error is swallowed and an
\* acknowledgment is still sent; it says processed=false and carries the
\* retval of the incoming line.
C9_ThrowAcknowledgedUnprocessed ==
  [][Handled({"throw"})' =>
       /\ Len(Written') = 1
       /\ \A i \in DOMAIN trace' : trace'[i] # Throw
       /\ NoStateChange
       /\ \A a \in {AckFields'}, f \in {Fields'} :
            /\ a[1] = S_MsgIn
            /\ a[2] = f[2]
            /\ a[3] = S_false
            /\ a[5] = f[5]]_vars

\* the listener threw on the message with id "y" and retval "r"
C9_Witness ==
  /\ Handled({"throw"})
  /\ Fields[2] = <<121>>
  /\ Len(Written) = 1
  /\ AckFields[3] = S_false
  /\ AckFields[5] = <<114>>

\* C10: a listener that returns an object with the keys processed and
\* retval controls the acknowledgment: its processed key (true when
\* missing) and its retval key are what the acknowledgment carries.
C10_ObjectControlsAcknowledgment ==
  [][(Handled({"return"})' /\ trace'[2].outcome.value.t = "obj") =>
       \A o \in {trace'[2].outcome.value.kv}, a \in {AckFields'} :
         /\ a[3] = IF Has(o, S_processed) THEN toString(Get(o, S_processed)) ELSE S_true
         /\ Has(o, S_retval) => a[5] = toString(Get(o, S_retval))]_vars

\* ------------------------------------------------------------------------
\* The connection lifecycle
\* ------------------------------------------------------------------------
\* the timers the step armed
Armed == SelectSeq(trace, LAMBDA e : e.op = "setTimeout")

\* C11: connect() called while connected, or in socket mode while a
\* reconnect is already scheduled, does nothing: no flag and no other state
\* changes, no timer is armed or cancelled, no transport is opened and
\* nothing is written.
C11_ConnectNoOp ==
  [][(Served("connect")' /\ (connected \/ (~piped /\ reconnecting))) =>
       /\ NoStateChange
       /\ trace' = <<Api("connect", <<>>)>>]_vars

\* connect() was called after the 'end' of the only socket had already
\* scheduled the reconnect
C11_Witness ==
  /\ Served("connect")
  /\ Armed = <<>>
  /\ reconnect /\ reconnecting
  /\ sockets = <<"closed">>

\* the step was the 'end' handler of a socket
EndStep == trace # <<>> /\ trace[1] = Emit("disconnect")

\* C12: socket mode: every 'end' leaves the connection not connected and
\* signals 'disconnect'.  With auto-reconnect the 'end' schedules a connect
\* attempt, and the attempt it scheduled is not cancelled: the timer stays
\* armed until it fires and opens a new socket, so that the attempt is
\* eventually started.  Without auto-reconnect the 'end' arms no timer, and
\* only a connect() of the application arms one.
C12_EndReconnects ==
  [][/\ EndStep' =>
          /\ ~piped
          /\ ~connected'
          /\ IF reconnect
               THEN reconnecting' /\ timer' = "connect"
               ELSE /\ Armed' = <<>>
                    /\ Len(sockets') = Len(sockets)
                    /\ UNCHANGED <<connecting, reconnecting, timer>>
     /\ (EndStep /\ reconnect /\ timer = "connect" /\ timer' # "connect") =>
          /\ Len(sockets') = Len(sockets) + 1
          /\ connecting' /\ timer' = "watchdog"
     /\ (~reconnect /\ timer # "connect" /\ timer' = "connect") =>
          Served("connect")']_vars

\* the step was the 'error' handler of a socket
ErrorStep ==
  /\ ~EndStep'
  /\ \E s \in DOMAIN sockets : sockets[s] # "closed" /\ sockets'[s] = "closed"

\* C13: a transport error leaves the connection not connected.  With
\* auto-reconnect a reconnect is scheduled and no 'error' event is signalled;
\* without it the 'error' event is signalled and nothing is scheduled, and
\* a later connect() of the application schedules a connect attempt, which
\* opens a new socket when its timer fires.
C13_ErrorReconnectsOrReports ==
  [][/\ ErrorStep =>
          /\ ~connected'
          /\ IF reconnect
               THEN /\ reconnecting' /\ timer' = "connect"
                    /\ \A i \in DOMAIN trace' : trace'[i] # Emit("error")
               ELSE /\ trace' = <<Emit("error")>>
                    /\ UNCHANGED <<connecting, reconnecting, timer>>
     /\ (Served("connect")' /\ ~piped /\ ~reconnect /\ ~connected) =>
          /\ reconnecting' /\ ~connecting' /\ timer' = "connect"
          /\ Len(sockets') = Len(sockets)
     /\ (timer = "connect" /\ timer' # "connect" /\ ~connected') =>
          /\ Len(sockets') = Len(sockets) + 1
          /\ connecting' /\ timer' = "watchdog"]_vars

\* without auto-reconnect the only socket failed before it connected, and
\* the application has called connect() again
C13_Witness ==
  /\ ~reconnect
  /\ sockets = <<"closed">> /\ readers = {}
  /\ Served("connect") /\ Armed # <<>>
  /\ timer = "connect"

\* the step was the firing of the watchdog
WatchdogStep ==
  /\ timer = "watchdog" /\ timer' # "watchdog"
  /\ sockets' = sockets
  /\ ~Served("connect")'

\* C17: every connect attempt arms a watchdog that lasts the reconnect
\* timeout.  The watchdog fires only while the connection is not connected,
\* and with auto-reconnect its firing schedules a new attempt.  The step
\* that makes the connection connected cancels the timer, and while the
\* connection stays connected no timer is armed and no socket is opened.
C17_WatchdogReschedules ==
  [][/\ Len(sockets') > Len(sockets) =>
          /\ timer' = "watchdog"
          /\ Armed' = <<SetTimer("watchdog", "reconnectTimeout")>>
     /\ WatchdogStep =>
          /\ ~connected /\ ~connected'
          /\ IF reconnect
               THEN /\ timer' = "connect" /\ reconnecting' /\ ~connecting'
                    /\ Armed' = <<SetTimer("_connect", "delay")>>
               ELSE /\ timer' = "none" /\ Armed' = <<>>
                    /\ UNCHANGED <<connecting, reconnecting>>
     /\ ConnectStep => (timer' = "none" /\ Armed' = <<>>)
     /\ (connected /\ connected') =>
          /\ timer' = "none" /\ Armed' = <<>>
          /\ Len(sockets') = Len(sockets)]_vars

\* the watchdog of the only socket has fired before the socket connected,
\* and has scheduled a new attempt
C17_Witness ==
  /\ reconnect
  /\ sockets = <<"opening">>
  /\ trace = <<SetTimer("_connect", "delay")>>
  /\ timer = "connect"

\* C18: at most one of connected, connecting and reconnecting is set, and
\* in pipe mode connecting and reconnecting are never set.
C18_OneFlag ==
  /\ ~(connected /\ connecting)
  /\ ~(connected /\ reconnecting)
  /\ ~(connecting /\ reconnecting)
  /\ piped => (~connecting /\ ~reconnecting)
\* the second connect attempt is in progress after the first socket failed
C18_Witness ==
  /\ ~piped
  /\ connecting /\ ~connected /\ ~reconnecting
  /\ sockets = <<"closed", "opening">>

\* ------------------------------------------------------------------------
\* Validation
\* ------------------------------------------------------------------------
\* the call of the application ended with a thrown error
Rejected == trace # <<>> /\ trace[1].op = "api" /\ trace[Len(trace)] = Throw

\* C14: a dispatch, subscribe, watch or setlocal call that is rejected with
\* a validation error writes nothing and leaves parameters,
\* setlocalCallbacks, dispatchCallbacks, subscriptions, watchers and queue
\* unchanged.
C14_RejectedCallChangesNothing ==
  [][(Rejected' /\ trace'[1].fn \in {"dispatch", "subscribe", "watch", "setlocal"}) =>
       /\ Written' = <<>>
       /\ UNCHANGED <<parameters, setlocalCallbacks, dispatchCallbacks, subscriptions,
                      watchers, queue>>]_vars

\* ------------------------------------------------------------------------
\* The codec
\* ------------------------------------------------------------------------
\* C15: unescape(escape(s)) = s for every string s over the wire alphabet,
\* with control characters, ':' and '%' in it, whether or not an extra
\* character is passed to escape.
C15_EscapeRoundTrip ==
  (Len(trace) = 3 /\ trace[3].op = "apply" /\ trace[3].fn = "unescape") =>
    trace[3].result = trace[1].args[1].s

\* the string "\n%:" was escaped with the extra character '%' and unescaped
C15_Witness ==
  /\ Len(trace) = 3
  /\ trace[1] = Given(<<Str(<<10, 37, 58>>), 37>>)
  /\ trace[2] = Applied("escape", <<37, 74, 37, 101, 37, 122>>)
  /\ trace[3].fn = "unescape"

\* the same keys with the same values, whatever the order of the keys
RECURSIVE SameObject(_, _)
SameObject(a, b) ==
  /\ Len(a) = Len(b)
  /\ \A i \in DOMAIN a :
       /\ Has(b, a[i][1])
       /\ \A x \in {a[i][2]}, y \in {Get(b, a[i][1])} :
            IF x.t = "obj" THEN y.t = "obj" /\ SameObject(x.kv, y.kv) ELSE x = y

\* C16: yatefy followed by beautify yields a structure equal to the
\* original, for every nested structure without key collisions and in
\* whatever order the keys of a node, its 'value' leaf among them, are
\* listed.
C16_DecorationRoundTrip ==
  (Len(trace) = 3 /\ trace[3].op = "apply" /\ trace[3].fn = "beautify") =>
    SameObject(trace[3].result, trace[1].args[1])

\* ------------------------------------------------------------------------
\* Local parameters
\* ------------------------------------------------------------------------
\* C19: setlocalCallbacks holds at most one callback per name.  A
\* setlocal/getlocal with a callback replaces the callback pending for the
\* name; the replaced callback is never invoked.  A setlocal answer for a
\* name invokes the callback pending for it, once, and removes the entry;
\* with no callback pending it invokes nothing and changes nothing.  So no
\* callback is invoked twice.
C19_LastSetlocalCallbackWins ==
  [][/\ \A k \in DOMAIN lcalls' :
          /\ lcalls'[k].n <= 1
          /\ lcalls'[k].superseded => lcalls'[k].n = 0
     /\ \A i, j \in DOMAIN setlocalCallbacks' :
          setlocalCallbacks'[i][1] = setlocalCallbacks'[j][1] => i = j
     /\ (Served("setlocal")' /\ ~Rejected' /\ trace'[1].args[3] # 0) =>
          /\ Get(setlocalCallbacks', trace'[1].args[1]) = trace'[1].args[3]
          /\ Invoked' = <<>>
     /\ Received' =>
          \A f \in {Fields'}, invoked \in {Invoked'} :
            f[1] = S_SetlocalIn =>
              IF Has(setlocalCallbacks, f[2]) /\ Get(setlocalCallbacks, f[2]) # 0
                THEN /\ Len(invoked) = 1
                     /\ invoked[1].fn = "setlocal"
                     /\ invoked[1].who = Get(setlocalCallbacks, f[2])
                     /\ lcalls[invoked[1].who].name = f[2]
                     /\ lcalls[invoked[1].who].n = 0
                     /\ lcalls'[invoked[1].who].n = 1
                     /\ ~Has(setlocalCallbacks', f[2])
                ELSE /\ invoked = <<>>
                     /\ NoStateChange]_vars

\* two requests for trackparam were made before any answer; the first
\* answer invoked the callback of the second request, and a second answer
\* has arrived since
C19_Witness ==
  /\ Received /\ Invoked = <<>>
  /\ Len(lcalls) = 2
  /\ lcalls[1] = [name |-> S_trackparam, n |-> 0, superseded |-> TRUE]
  /\ lcalls[2] = [name |-> S_trackparam, n |-> 1, superseded |-> FALSE]
  /\ ~Has(setlocalCallbacks, S_trackparam)

\* ------------------------------------------------------------------------
\* Install confirmations
\* ------------------------------------------------------------------------
\* C20: an install confirmation with success=false for a subscribed name
\* removes the subscription and signals 'warning'; the name is then not
\* among those a later connect installs, and a new subscribe() of it is
\* accepted.  A confirmation with success=true, or for a name that is not
\* subscribed, changes no state and signals nothing.  No confirmation
\* writes anything.
C20_RefusedInstallUnsubscribes ==
  [][/\ Received' =>
          \A f \in {Fields'} :
            f[1] = S_InstallIn =>
              /\ Written' = <<>>
              /\ IF Has(subscriptions, f[3]) /\ f[4] = S_false
                   THEN /\ subscriptions' = Del(subscriptions, f[3])
                        /\ ~Has(subscriptions', f[3])
                        /\ trace'[Len(trace')] = Emit("warning")
                        /\ UNCHANGED <<config, lifecycle, parameters, setlocalCallbacks,
                                       watchers, dispatching>>
                   ELSE /\ NoStateChange
                        /\ Len(trace') = 1
     /\ ConnectStep =>
          \A w \in {Written'} :
            \A i \in DOMAIN w :
              VerbOf(w[i]) = S_InstallOut => Has(subscriptions, NameOf(w[i]))
     /\ (Served("subscribe")' /\ ~Has(subscriptions, trace'[1].args[1].s)) =>
          /\ ~Rejected'
          /\ Has(subscriptions', trace'[1].args[1].s)]_vars

\* the engine has refused the install of "a" while "a" and "b" were
\* subscribed: "a" is removed, "b" is kept and 'warning' is signalled
C20_Witness ==
  /\ Received
  /\ Fields[1] = S_InstallIn /\ Fields[3] = N_a /\ Fields[4] = S_false
  /\ trace[Len(trace)] = Emit("warning")
  /\ ~Has(subscriptions, N_a) /\ Has(subscriptions, N_b)

\* ------------------------------------------------------------------------
\* Message ids
\* ------------------------------------------------------------------------
\* C23: any two Messages created by dispatch() have distinct ids, whatever
\* the wall-clock second and the high-resolution counter read when they are
\* created, so that no two dispatches share a dispatchCallbacks entry.
C23_IdsDistinct ==
  \A i, j \in DOMAIN msgs : i # j => msgs[i]._id # msgs[j]._id

\* ------------------------------------------------------------------------
\* Messages written and queued
\* ------------------------------------------------------------------------
\* the dispatches whose Message the step turned from outgoing to enqueued
Enqueued ==
  {k \in DOMAIN msgs' :
     /\ msgs'[k]._type = "enqueued"
     /\ k \in DOMAIN msgs => msgs[k]._type = "outgoing"}

\* C27: a dispatched Message is written at most once: every %%>message line
\* a step writes belongs to a Message that the step turns from outgoing to
\* enqueued, one line per such Message; an enqueued Message stays enqueued,
\* also over a disconnect and a reconnect; and a dispatch made while
\* connected does not touch the queue.
C27_WrittenAtMostOnce ==
  [][\A w \in {MessageLines(Written')}, e \in {Enqueued} :
       /\ Len(w) = Cardinality(e)
       /\ \A i \in DOMAIN w : \E k \in e : IsLineOf(w[i], msgs'[k])
       /\ \A k \in DOMAIN msgs : msgs[k]._type = "enqueued" => msgs'[k] = msgs[k]
       /\ (Served("dispatch")' /\ connected) => queue' = queue]_vars

\* the connection has been connected over a second socket, and the connect
\* wrote no line for the two Messages written over the first socket
C27_Witness ==
  /\ connected /\ Len(sockets) = 2
  /\ trace # <<>> /\ trace[Len(trace)] = Emit("connect")
  /\ MessageLines(Written) = <<>>
  /\ Len(msgs) = 2
  /\ \A k \in DOMAIN msgs : msgs[k]._type = "enqueued"

\* C28: whenever the connection is connected the queue is empty; every
\* Message in the queue is outgoing; and the queue grows only in a step
\* that starts and ends with the connection not connected.
C28_QueueEmptyWhenConnected ==
  [][/\ connected' => queue' = <<>>
     /\ \A i \in DOMAIN queue' : msgs'[queue'[i]]._type = "outgoing"
     /\ Len(queue') > Len(queue) => (~connected /\ ~connected')]_vars

\* two Messages were queued after the socket of the connection had ended
C28_Witness ==
  /\ ~connected
  /\ \E s \in DOMAIN sockets : sockets[s] = "closed" /\ s \in readers
  /\ Len(queue) = 2
  /\ Served("dispatch")

\* ------------------------------------------------------------------------
\* Sockets
\* ------------------------------------------------------------------------
\* C24: in socket mode at most one socket of the Connection is open or
\* still connecting, and while the connection is connected its streams are
\* an open socket.
C24_SingleSocket ==
  /\ Cardinality({s \in DOMAIN sockets : sockets[s] \in {"opening", "open"}}) <= 1
  /\ (~piped /\ connected) => (stream \in DOMAIN sockets /\ sockets[stream] = "open")

\* ------------------------------------------------------------------------
\* Watchers
\* ------------------------------------------------------------------------
\* the step processed a notification: a %%<message line with an empty id
Notified == Received /\ Len(Fields) >= 4 /\ Fields[1] = S_MsgIn /\ Fields[2] = <<>>

\* C21: processing a notification invokes the watcher registered for its
\* name and nothing else, or nothing if there is none; it writes no line
\* and changes neither the pending dispatches, the subscriptions, the
\* watchers nor the queue.
C21_NotificationInvokesWatcher ==
  [][Notified' =>
       \A f \in {Fields'} :
         /\ Written' = <<>>
         /\ UNCHANGED <<dispatchCallbacks, subscriptions, watchers, queue>>
         /\ IF \E i \in DOMAIN watchers : watchers[i][1] = f[4]
              THEN /\ Len(Invoked') = 1
                   /\ Invoked'[1].op = "call"
                   /\ Invoked'[1].fn = "watcher"
                   /\ \E i \in DOMAIN watchers :
                        watchers[i] = <<f[4], Invoked'[1].who>>
                   /\ Invoked'[1].retval = Str(unescape(f[5]))
              ELSE Invoked' = <<>>]_vars

\* a notification for the second of two watched names has just invoked its
\* watcher, on a connected connection
C21_Witness ==
  /\ Notified
  /\ connected
  /\ Len(watchers) = 2
  /\ Fields[4] = N_b
  /\ Len(Invoked) = 1
  /\ Invoked[1].who = 2
  /\ watchers[1][1] = N_a

\* C22: a watch() call made while a watcher is already installed, hence
\* not the first one, neither changes the parameters nor writes a setlocal,
\* whatever setlocal calls were made before it.
C22_SelfwatchPromotedOnce ==
  [][(Served("watch")' /\ watchers # <<>>) =>
       /\ parameters' = parameters
       /\ \A i \in DOMAIN Written' : VerbOf(Written'[i]) # S_SetlocalOut]_vars

\* ------------------------------------------------------------------------
\* Lines for names without a subscription
\* ------------------------------------------------------------------------
\* the step processed a message of the engine (%%>message)
Delivered == Received /\ Len(Fields) >= 4 /\ Fields[1] = S_MsgOut

\* C26: a message of the engine whose name has no subscription when it is
\* processed is dropped: the step invokes no listener, writes no line,
\* signals nothing and changes no state.
C26_UnsubscribedMessageDropped ==
  [][Delivered' =>
       \A f \in {Fields'} :
         (~\E i \in DOMAIN subscriptions : subscriptions[i][1] = f[4]) =>
           /\ Len(trace') = 1
           /\ Invoked' = <<>>
           /\ Written' = <<>>
           /\ NoStateChange]_vars

\* a message for the first name has just been dropped on a connected
\* connection that holds a subscription for the second name only
C26_Witness ==
  /\ Delivered
  /\ connected
  /\ Fields[4] = N_a
  /\ Len(subscriptions) = 1
  /\ subscriptions[1][1] = N_b
  /\ Len(trace) = 1

\* the step processed a refusal of an install (%%<install:...:false)
Refused ==
  /\ Received /\ Len(Fields) >= 4 /\ Fields[1] = S_InstallIn
  /\ Fields[4] = S_false

\* C25: the refusal of an install only removes the subscription whose
\* install it answers: while a later install for the same name waits for
\* its confirmation, the subscription held for the name is the one that
\* later install belongs to, and the refusal leaves the subscriptions as
\* they are.
C25_ConfirmationAnswersItsInstall ==
  [][(Refused' /\ installs # <<>> /\ installs' = Tail(installs)) =>
       \A f \in {Fields'} :
         (\E i \in 2..Len(installs) : Split(installs[i], ChColon)[3] = f[3]) =>
           subscriptions' = subscriptions]_vars

====
